---- MODULE Spec2Model ----
(***************************************************************************)
(* A model of the stock-ticker resolution code of my-little-barebone-app.  *)
(*                                                                         *)
(* Part I   text primitives (JavaScript string operations, character by    *)
(*          character) and the catalog.                                    *)
(* Part II  StockTickerParser (src/src/services/NLPEntityService.ts, the   *)
(*          last generation of the class, lines 1090-1977).                *)
(* Part III extractTickers of TickerExtractorService                       *)
(*          (src/src/services/tickerExtractorService.ts, lines 1-342) with *)
(*          StockDataService and StockFuzeMatchingService.  The repository *)
(*          holds two sources of StockFuzeMatchingService,                 *)
(*          src/unnamed/part_003 and                                       *)
(*          src/src/services/StockFuzeMatchingService.ts; which of them is *)
(*          loaded is fixed at Init (fuze.revision).                       *)
(*                                                                         *)
(* Specifications: Spec (one parser, any call), SpecRepeat (a call         *)
(* repeated after other calls), SpecService (concurrent extractTickers     *)
(* calls during and after initialization), SpecInputs (the same with       *)
(* empty, blank, entity-free and repetitive texts) and SpecRefresh (the    *)
(* same while the stock list is refreshed).                                *)
(*                                                                         *)
(* Part IV  the stock-list cache of StockDataService                       *)
(*          (src/src/services/StockDataService.ts) and the refresh         *)
(*          endpoint (src/src/app/api/refresh_fmp_stock_list_data/         *)
(*          route.ts), under the specification SpecCache.                  *)
(*                                                                         *)
(* Texts are sequences of one-character strings.  Confidences and Fuse.js  *)
(* scores are exact rationals, written as integers in millionths           *)
(* (One = 1.0); the code's IEEE doubles are read as the reals they denote. *)
(***************************************************************************)
EXTENDS Integers, Sequences, FiniteSets, TLC

(***************************************************************************)
(* Part I.  Text primitives                                                *)
(***************************************************************************)

Uppers == <<"A","B","C","D","E","F","G","H","I","J","K","L","M",
            "N","O","P","Q","R","S","T","U","V","W","X","Y","Z">>
Lowers == <<"a","b","c","d","e","f","g","h","i","j","k","l","m",
            "n","o","p","q","r","s","t","u","v","w","x","y","z">>
Digits == {"0","1","2","3","4","5","6","7","8","9"}

IsUpper(c) == \E i \in 1..26 : Uppers[i] = c
IsLower(c) == \E i \in 1..26 : Lowers[i] = c
IsDigit(c) == c \in Digits
\* \w of a JavaScript regular expression
IsWordChar(c) == IsUpper(c) \/ IsLower(c) \/ IsDigit(c) \/ c = "_"
\* \s of a JavaScript regular expression (the texts use the blank only)
IsSpace(c) == c = " "

ToUpperChar(c) == IF IsLower(c) THEN Uppers[CHOOSE i \in 1..26 : Lowers[i] = c] ELSE c
ToLowerChar(c) == IF IsUpper(c) THEN Lowers[CHOOSE i \in 1..26 : Uppers[i] = c] ELSE c

\* String.prototype.toUpperCase / toLowerCase
ToUpperCase(s) == [i \in 1..Len(s) |-> ToUpperChar(s[i])]
ToLowerCase(s) == [i \in 1..Len(s) |-> ToLowerChar(s[i])]

\* String.prototype.includes: sub occurs in s as a substring
Includes(s, sub) ==
    \E i \in 0..(Len(s) - Len(sub)) : SubSeq(s, i + 1, i + Len(sub)) = sub

\* String.prototype.startsWith / endsWith
StartsWith(s, pre) == Len(pre) <= Len(s) /\ SubSeq(s, 1, Len(pre)) = pre
EndsWith(s, suf) ==
    Len(suf) <= Len(s) /\ SubSeq(s, Len(s) - Len(suf) + 1, Len(s)) = suf

\* String.prototype.trim
RECURSIVE TrimLeft(_)
TrimLeft(s) == IF s # <<>> /\ IsSpace(Head(s)) THEN TrimLeft(Tail(s)) ELSE s
RECURSIVE TrimRight(_)
TrimRight(s) ==
    IF s # <<>> /\ IsSpace(s[Len(s)]) THEN TrimRight(SubSeq(s, 1, Len(s) - 1)) ELSE s
Trim(s) == TrimRight(TrimLeft(s))

\* s.split(/\s+/) without the empty strings a leading or trailing blank
\* produces (every caller drops them or compares them with non-empty symbols)
RECURSIVE SplitFrom(_, _, _, _)
SplitFrom(s, i, cur, acc) ==
    IF i > Len(s)
    THEN IF cur = <<>> THEN acc ELSE Append(acc, cur)
    ELSE IF IsSpace(s[i])
         THEN SplitFrom(s, i + 1, <<>>, IF cur = <<>> THEN acc ELSE Append(acc, cur))
         ELSE SplitFrom(s, i + 1, Append(cur, s[i]), acc)
SplitWS(s) == SplitFrom(s, 1, <<>>, <<>>)

\* s.replace(new RegExp(term, "gi"), " "): every non-overlapping occurrence
\* of term, ignoring case, left to right, becomes one blank
RECURSIVE ReplaceAllCI(_, _, _)
ReplaceAllCI(s, term, i) ==
    IF i > Len(s) THEN <<>>
    ELSE IF i + Len(term) - 1 <= Len(s)
            /\ ToLowerCase(SubSeq(s, i, i + Len(term) - 1)) = ToLowerCase(term)
         THEN <<" ">> \o ReplaceAllCI(s, term, i + Len(term))
         ELSE <<s[i]>> \o ReplaceAllCI(s, term, i + 1)

\* s.replace(/[^\w\s.]/gi, " ")
StripSpecial(s) ==
    [i \in 1..Len(s) |->
        IF IsWordChar(s[i]) \/ IsSpace(s[i]) \/ s[i] = "." THEN s[i] ELSE " "]

AllUpper(s) == \A i \in 1..Len(s) : IsUpper(s[i])
AllDigits(s) == \A i \in 1..Len(s) : IsDigit(s[i])
\* index of the first "." of s, 0 when there is none
DotAt(s) == IF \E i \in 1..Len(s) : s[i] = "."
            THEN CHOOSE i \in 1..Len(s) : s[i] = "." /\ \A j \in 1..(i - 1) : s[j] # "."
            ELSE 0

\* sequence helpers
Member(x, s) == \E i \in 1..Len(s) : s[i] = x
IndexOf(x, s) == CHOOSE i \in 1..Len(s) : s[i] = x /\ \A j \in 1..(i - 1) : s[j] # x
\* [...new Set(s)]: first occurrences, in order
RECURSIVE Unique(_)
Unique(s) ==
    IF s = <<>> THEN <<>>
    ELSE LET r == Unique(SubSeq(s, 1, Len(s) - 1))
         IN IF Member(s[Len(s)], r) THEN r ELSE Append(r, s[Len(s)])
\* a slice that keeps every element
TakeAll(s, n) == s
\* Array.prototype.slice(0, n) for n >= 0
Take(s, n) == SubSeq(s, 1, IF n < Len(s) THEN n ELSE Len(s))

(***************************************************************************)
(* The catalog: the stockList handed to new StockTickerParser(stockList).  *)
(* Two cross-listed companies (a US listing and an HKSE listing under one  *)
(* name, as in the repository's test catalog), one single listing, and a   *)
(* company listed over the counter in the US and in Tokyo, on no exchange  *)
(* of primaryExchanges, and two single listings in Shanghai and Shenzhen.   *)
(* The two Alibaba records spell the name with different letter case.      *)
(***************************************************************************)
sBABA == <<"B","A","B","A">>
s9988 == <<"9","9","8","8",".","H","K">>
sHSBC == <<"H","S","B","C">>
s0005 == <<"0","0","0","5",".","H","K">>
sNVDA == <<"N","V","D","A">>
sNTDOY == <<"N","T","D","O","Y">>
s7974 == <<"7","9","7","4",".","T">>
s600519 == <<"6","0","0","5","1","9",".","S","S">>
s000001 == <<"0","0","0","0","0","1",".","S","Z">>

StockList == <<
    [symbol |-> sBABA, name |-> <<"A","l","i","b","a","b","a"," ","G","r","o","u","p">>, exchangeShortName |-> "NYSE"],
    [symbol |-> sHSBC, name |-> <<"H","S","B","C"," ","H","o","l","d","i","n","g","s">>, exchangeShortName |-> "NYSE"],
    [symbol |-> s0005, name |-> <<"H","S","B","C"," ","H","o","l","d","i","n","g","s">>, exchangeShortName |-> "HKSE"],
    [symbol |-> s9988, name |-> <<"A","l","i","b","a","b","a"," ","g","r","o","u","p">>, exchangeShortName |-> "HKSE"],
    [symbol |-> sNVDA, name |-> <<"N","V","I","D","I","A"," ","C","o","r","p">>, exchangeShortName |-> "NASDAQ"],
    [symbol |-> sNTDOY, name |-> <<"N","i","n","t","e","n","d","o"," ","C","o">>, exchangeShortName |-> "OTC"],
    [symbol |-> s7974, name |-> <<"N","i","n","t","e","n","d","o"," ","C","o">>, exchangeShortName |-> "TSE"],
    [symbol |-> s600519, name |-> <<"K","w","e","i","c","h","o","w"," ","M","o","u","t","a","i">>, exchangeShortName |-> "SHH"],
    [symbol |-> s000001, name |-> <<"P","i","n","g"," ","A","n"," ","B","a","n","k">>, exchangeShortName |-> "SHZ"] >>

Symbols == {StockList[i].symbol : i \in 1..Len(StockList)}
\* the record of a symbol: symbolMap[symbol] of parseQuery (the last record
\* with that symbol; symbols are unique in this catalog)
StockOf(sym) ==
    StockList[CHOOSE i \in 1..Len(StockList) :
                 StockList[i].symbol = sym
                 /\ \A j \in (i + 1)..Len(StockList) : StockList[j].symbol # sym]
\* result.stock.name.toLowerCase(): the company identity of a record
CompanyOf(sym) == ToLowerCase(StockOf(sym).name)
ExchangeOf(sym) == StockOf(sym).exchangeShortName

(***************************************************************************)
(* The query texts the calls draw from.                                    *)
(***************************************************************************)
tAlibabaStock == <<"A","l","i","b","a","b","a"," ","s","t","o","c","k">>
tBABA == <<"B","A","B","A">>
tAlibabaHongKong == <<"A","l","i","b","a","b","a"," ","H","o","n","g"," ","K","o","n","g"," ","s","t","o","c","k","s">>
tThoughtsOnHSBC == <<"T","h","o","u","g","h","t","s"," ","o","n"," ","H","S","B","C">>
tHSBCAlibaba == <<"H","S","B","C"," ","A","l","i","b","a","b","a">>
tHsbcHoldings == <<"h","s","b","c"," ","h","o","l","d","i","n","g","s">>
tNVDAAlibaba == <<"N","V","D","A"," ","A","l","i","b","a","b","a">>
tDollarBABA == <<"$","B","A","B","A"," ","s","h","a","r","e","s">>
tNintendo == <<"N","i","n","t","e","n","d","o">>
tMoutaiPing == <<"M","o","u","t","a","i"," ","P","i","n","g">>
tFShares == <<"F"," ","s","h","a","r","e","s">>

Texts == {tAlibabaStock, tBABA, tAlibabaHongKong, tThoughtsOnHSBC,
          tHSBCAlibaba, tHsbcHoldings, tNVDAAlibaba, tDollarBABA, tNintendo, tMoutaiPing,
          tFShares}

(***************************************************************************)
(* Part II.  StockTickerParser                                             *)
(***************************************************************************)

\* confidence 1.0 ("Direct matches have perfect confidence")
One == 1000000
\* the limit parseQuery hands to every Fuse search (its maxResults default;
\* findStockTickers calls parseQuery(input) without a second argument)
FuseLimit == 5
\* the largest maxResults a call passes
MaxResultsBound == 2

Stocks == 1..Len(StockList)
SymbolAt(i) == StockList[i].symbol
\* result.stock.name.toLowerCase(), per catalog record
NameKeys == [i \in Stocks |-> ToLowerCase(StockList[i].name)]
NameKey(i) == NameKeys[i]
ExchangeAt(i) == StockList[i].exchangeShortName

\* the phrases extractCandidates removes first, in the order it removes them
SpecialTermsToIgnore == <<
    <<"F","i","n","d"," ","m","e">>,
    <<"u","p","t","r","e","n","d">>,
    <<"s","t","o","c","k"," ","p","r","i","c","e">>,
    <<"c","o","m","p","a","r","e">>,
    <<"H","o","n","g"," ","K","o","n","g"," ","s","t","o","c","k">>,
    <<"u","p","t","r","e","n","d">>,
    <<"t","h","o","u","g","h","t","s"," ","o","n">>,
    <<"w","h","a","t"," ","a","b","o","u","t">>,
    <<"h","o","w"," ","i","s">>,
    <<"t","e","l","l"," ","m","e"," ","a","b","o","u","t">> >>

RECURSIVE RemoveTerms(_, _)
RemoveTerms(s, k) ==
    IF k > Len(SpecialTermsToIgnore) THEN s
    ELSE RemoveTerms(ReplaceAllCI(s, SpecialTermsToIgnore[k], 1), k + 1)

\* tokens of extractCandidates: special phrases removed, every character
\* other than \w, \s and "." blanked, split at blanks, tokens of one
\* character dropped
ExtractTokens(input) ==
    SelectSeq(SplitWS(StripSpecial(RemoveTerms(input, 1))), LAMBDA t : Len(t) > 1)

\* the five ticker formats of extractCandidates
IsStandardTicker(t) == Len(t) \in 1..5 /\ AllUpper(t)
IsTickerWithPrefix(t) == StartsWith(t, <<"$">>) /\ Len(t) > 2
IsHKTicker(t) ==
    LET d == DotAt(t)
    IN d > 1 /\ Len(t) = d + 2 /\ AllDigits(SubSeq(t, 1, d - 1))
       /\ AllUpper(SubSeq(t, d + 1, Len(t)))
IsChinaATicker(t) == IsHKTicker(t) /\ DotAt(t) = 7
IsClassTicker(t) ==
    LET d == DotAt(t)
    IN d \in 2..5 /\ Len(t) = d + 1 /\ AllUpper(SubSeq(t, 1, d - 1)) /\ IsUpper(t[Len(t)])
IsPotentialTicker(t) ==
    \/ IsStandardTicker(t) \/ IsTickerWithPrefix(t) \/ IsHKTicker(t)
    \/ IsChinaATicker(t) \/ IsClassTicker(t)

CleanTicker(t) == IF StartsWith(t, <<"$">>) THEN Tail(t) ELSE t

\* extractCandidates: the ticker-shaped tokens (deduplicated), then all tokens
ExtractCandidates(input) ==
    LET tokens == ExtractTokens(input)
        potentialTickers == SelectSeq(tokens, IsPotentialTicker)
        cleanTickers ==
            Unique([i \in 1..Len(potentialTickers) |-> CleanTicker(potentialTickers[i])])
    IN cleanTickers \o tokens

\* the market hints findStockTickers reads off the query text
HasHongKongHint(input) ==
    \/ Includes(ToLowerCase(input), <<"h","o","n","g"," ","k","o","n","g">>)
    \/ Includes(ToLowerCase(input), <<"h","k"," ","m","a","r","k","e","t">>)
    \/ Includes(input, <<".","h","k">>)
HasUSHint(input) ==
    \/ Includes(ToLowerCase(input), <<"u","s"," ","m","a","r","k","e","t">>)
    \/ Includes(ToLowerCase(input), <<"n","a","s","d","a","q">>)
    \/ Includes(ToLowerCase(input), <<"n","y","s","e">>)
    \/ (Includes(input, <<"$">>) /\ ~HasHongKongHint(input))
HasChinaHint(input) ==
    \/ Includes(ToLowerCase(input), <<"c","h","i","n","a">>)
    \/ Includes(ToLowerCase(input), <<"c","h","i","n","e","s","e">>)
    \/ Includes(ToLowerCase(input), <<"a","-","s","h","a","r","e">>)
    \/ Includes(ToLowerCase(input), <<"s","h","a","n","g","h","a","i">>)
    \/ Includes(ToLowerCase(input), <<"s","h","e","n","z","h","e","n">>)
    \/ Includes(input, <<".","s","s">>)
    \/ Includes(input, <<".","s","z">>)

\* exchangeMap[location] || []
TargetExchanges(location) ==
    CASE location = "US" -> <<"NYSE", "NASDAQ", "CBOE", "AMEX", "OTC">>
      [] location = "HK" -> <<"HKSE">>
      [] location = "CN" -> <<"SHH", "SHZ">>
      [] location = "UK" -> <<"LSE">>
      [] location = "JP" -> <<"TSE">>
      [] location = "EU" -> <<"XETRA", "EURONEXT">>
      [] OTHER -> <<>>
PrimaryExchanges == <<"NYSE", "NASDAQ", "HKSE", "LSE">>
USExchanges == <<"NYSE", "NASDAQ", "CBOE", "AMEX", "OTC">>

\* input.toUpperCase().split(/\s+/)
InputTokens(input) == SplitWS(ToUpperCase(input))
\* inputTokens.includes(result.stock.symbol)
TickerInQuery(input, i) == Member(SymbolAt(i), InputTokens(input))
\* input.toUpperCase().includes(result.stock.symbol)
SymbolInText(input, i) == Includes(ToUpperCase(input), SymbolAt(i))
\* input.trim().toUpperCase().match(/^[A-Z]{1,5}(\.[A-Z]{1,2})?$/)
LooksLikeTicker(input) ==
    LET t == ToUpperCase(Trim(input))
        d == DotAt(t)
    IN IF d = 0 THEN Len(t) \in 1..5 /\ AllUpper(t)
       ELSE /\ d \in 2..6 /\ AllUpper(SubSeq(t, 1, d - 1))
            /\ Len(t) - d \in 1..2 /\ AllUpper(SubSeq(t, d + 1, Len(t)))

(***************************************************************************)
(* What the code reads off a query text, computed once per text.           *)
(***************************************************************************)
Candidates == [t \in Texts |-> ExtractCandidates(t)]
Hints ==
    [t \in Texts |->
        [hongKong |-> HasHongKongHint(t), us |-> HasUSHint(t), china |-> HasChinaHint(t)]]
\* the records whose symbol is one of inputTokens
ExplicitTickers == [t \in Texts |-> {i \in Stocks : TickerInQuery(t, i)}]
\* the records whose symbol occurs somewhere in the upper-cased text
MentionedSymbols == [t \in Texts |-> {i \in Stocks : SymbolInText(t, i)}]
\* the upper-cased, trimmed text when it looks like one ticker
TickerLike ==
    [t \in Texts |-> IF LooksLikeTicker(t) THEN <<ToUpperCase(Trim(t))>> ELSE <<>>]
\* input.toUpperCase().includes('HSBC')
HsbcTexts == {t \in Texts : Includes(ToUpperCase(t), sHSBC)}

(***************************************************************************)
(* The comparators the code hands to Array.prototype.sort, and the sort.   *)
(* Before(cmp, a, b) stands for "compare(a, b) < 0"; cmp names the         *)
(* comparator and carries the variables it closes over.  The sort is       *)
(* stable; the arrays sorted here are short, where the engine sorts by     *)
(* insertion.                                                              *)
(***************************************************************************)
\* (a, b) => b.confidence - a.confidence
ByConfidence == [by |-> "confidence"]
\* Fuse.js orders its hits by ascending score
ByScore == [by |-> "score"]
\* the comparator of sortedListings: listings whose symbol is a token of
\* the query first, then by confidence
ByListing(input) == [by |-> "listing", input |-> input]
\* the comparator of filteredResults: for location US, two listings on
\* accepted exchanges of different rank go by rank; otherwise by confidence
ByExchange(location) == [by |-> "exchange", location |-> location]

\* the comparators of prioritizeExchanges (TickerExtractorService), over the
\* stocks as they read at the time of the sort
ByMatchInfo == [by |-> "matchInfo"]
ByUSExchange == [by |-> "usExchange"]
ByCNExchange == [by |-> "cnExchange"]
MatchInfoBefore(a, b) ==
    IF a.isDirectMatch /\ ~b.isDirectMatch THEN TRUE
    ELSE IF ~a.isDirectMatch /\ b.isDirectMatch THEN FALSE
    ELSE IF ~a.isDirectMatch /\ ~b.isDirectMatch THEN a.matchScoreOr1 < b.matchScoreOr1
    ELSE FALSE
PriorityBefore(first, second, a, b) ==
    IF a.exchange = first /\ b.exchange # first THEN TRUE
    ELSE IF b.exchange = first /\ a.exchange # first THEN FALSE
    ELSE IF a.exchange = second /\ b.exchange # second THEN TRUE
    ELSE FALSE

ListingBefore(input, a, b) ==
    LET aTickerInQuery == a.stock \in ExplicitTickers[input]
        bTickerInQuery == b.stock \in ExplicitTickers[input]
    IN IF aTickerInQuery /\ ~bTickerInQuery THEN TRUE
       ELSE IF ~aTickerInQuery /\ bTickerInQuery THEN FALSE
       ELSE a.confidence > b.confidence
ExchangeBefore(location, a, b) ==
    LET target == TargetExchanges(location)
        ea == ExchangeAt(a.stock)
        eb == ExchangeAt(b.stock)
    IN IF location = "US" /\ Member(ea, target) /\ Member(eb, target)
          /\ IndexOf(ea, target) # IndexOf(eb, target)
       THEN IndexOf(ea, target) < IndexOf(eb, target)
       ELSE a.confidence > b.confidence
Before(cmp, a, b) ==
    CASE cmp.by = "confidence" -> a.confidence > b.confidence
      [] cmp.by = "score" -> a.score < b.score
      [] cmp.by = "listing" -> ListingBefore(cmp.input, a, b)
      [] cmp.by = "exchange" -> ExchangeBefore(cmp.location, a, b)
      [] cmp.by = "matchInfo" -> MatchInfoBefore(a, b)
      [] cmp.by = "usExchange" -> PriorityBefore("NYSE", "NASDAQ", a, b)
      [] cmp.by = "cnExchange" -> PriorityBefore("SHH", "SHZ", a, b)

RECURSIVE InsertSorted(_, _, _)
InsertSorted(sorted, x, cmp) ==
    IF sorted = <<>> THEN <<x>>
    ELSE IF Before(cmp, x, sorted[Len(sorted)])
         THEN Append(InsertSorted(SubSeq(sorted, 1, Len(sorted) - 1), x, cmp),
                     sorted[Len(sorted)])
         ELSE Append(sorted, x)
RECURSIVE SortFrom(_, _, _, _)
SortFrom(s, i, acc, cmp) ==
    IF i > Len(s) THEN acc
    ELSE SortFrom(s, i + 1, InsertSorted(acc, s[i], cmp), cmp)
Sort(s, cmp) == SortFrom(s, 1, <<>>, cmp)

(***************************************************************************)
(* Fuse.js is a library outside this code.  What a search returns is fixed *)
(* per catalog record by `fuse`: whether the record can be hit at all and  *)
(* with which score.  A term hits a record when every blank-separated part *)
(* of the term occurs, ignoring case, in the record's name or symbol       *)
(* (extended search, ignoreLocation); hits come best score first.          *)
(***************************************************************************)
\* Fuse.js scores: 0.005 and 0.3
Scores == {5000, 300000}
Related(term, i) ==
    LET parts == SplitWS(ToLowerCase(term))
    IN /\ parts # <<>>
       /\ \A k \in 1..Len(parts) :
             \/ Includes(NameKey(i), parts[k])
             \/ Includes(ToLowerCase(SymbolAt(i)), parts[k])
\* the terms parseQuery searches for: every candidate and every full text
SearchTerms == Texts \cup UNION {{Candidates[t][k] : k \in 1..Len(Candidates[t])} : t \in Texts}
Hits == [term \in SearchTerms |-> {i \in Stocks : Related(term, i)}]
\* a parser whose searches went through the cached index and found it empty
SearchedThroughCache(index) == IF index = "cached" THEN {} ELSE Stocks
\* the records fuseWithIndex searches: new Fuse(this.stockList, options) is
\* built from the stock list; the index taken from indexCache or createIndex
\* is not handed to it
SearchedRecords(index) == Stocks
\* fuseWithIndex.search(term, { limit })
FuseSearch(fz, index, term, limit) ==
    LET hit(i) == i \in SearchedRecords(index) /\ fz[i].hit /\ i \in Hits[term]
        all == [i \in Stocks |-> [item |-> i, score |-> fz[i].score]]
    IN Take(Sort(SelectSeq(all, LAMBDA r : hit(r.item)), ByScore), limit)

\* result.score ? 1 - result.score : 0.8
Confidence(score) == IF score # 0 THEN One - score ELSE 800000

\* symbolMap[candidate]: the index of the last record with that symbol, 0
\* when there is none
SymbolMap(candidate) ==
    IF \E i \in Stocks : SymbolAt(i) = candidate
    THEN CHOOSE i \in Stocks :
            SymbolAt(i) = candidate /\ \A j \in (i + 1)..Len(StockList) : SymbolAt(j) # candidate
    ELSE 0
\* seenSymbols.has(symbol), seenSymbols being the symbols of results so far
Seen(results, sym) == \E k \in 1..Len(results) : SymbolAt(results[k].stock) = sym

\* the exact-match loop of parseQuery
RECURSIVE ExactMatches(_, _, _)
ExactMatches(candidates, k, results) ==
    IF k > Len(candidates) THEN results
    ELSE LET exactMatch == SymbolMap(candidates[k])
         IN ExactMatches(candidates, k + 1,
                IF exactMatch # 0 /\ ~Seen(results, SymbolAt(exactMatch))
                THEN Append(results, [stock |-> exactMatch, confidence |-> One])
                ELSE results)
\* the forEach over the hits of one search; the full-text search scales the
\* confidence by 0.9 (tenths = 9), the candidate searches do not (tenths = 10)
RECURSIVE AddMatches(_, _, _, _)
AddMatches(hits, k, tenths, results) ==
    IF k > Len(hits) THEN results
    ELSE AddMatches(hits, k + 1, tenths,
            IF ~Seen(results, SymbolAt(hits[k].item))
            THEN Append(results, [stock |-> hits[k].item,
                                  confidence |-> (Confidence(hits[k].score) * tenths) \div 10])
            ELSE results)
\* the fuzzy loop over the candidates, skipping those that are symbols
RECURSIVE FuzzyMatches(_, _, _, _, _)
FuzzyMatches(fz, index, candidates, k, results) ==
    IF k > Len(candidates) THEN results
    ELSE FuzzyMatches(fz, index, candidates, k + 1,
            IF SymbolMap(candidates[k]) # 0 THEN results
            ELSE AddMatches(FuseSearch(fz, index, candidates[k], FuseLimit), 1, 10, results))

\* parseQuery(input): the matches, best confidence first; index is
\* this.indexCache as the call finds it
ParseQuery(fz, index, input) ==
    LET candidates == Candidates[input]
        exact == ExactMatches(candidates, 1, <<>>)
        fuzzy == FuzzyMatches(fz, index, candidates, 1, exact)
        nameMatches == IF Len(input) > 0
                       THEN FuseSearch(fz, index, input, FuseLimit)
                       ELSE <<>>
    IN Sort(AddMatches(nameMatches, 1, 9, fuzzy), ByConfidence)

(***************************************************************************)
(* findStockTickers, stage by stage.  A MatchResult is                     *)
(* [stock |-> index of the catalog record, confidence |-> millionths].     *)
(* parseQuery returns one MatchResult object per symbol, so inside one     *)
(* call the record index identifies the object the boosts mutate.          *)
(***************************************************************************)
\* the keys of a Map filled by grouping rs on stock.name.toLowerCase(), in
\* insertion order
CompanyKeys(rs) == Unique([k \in 1..Len(rs) |-> NameKey(rs[k].stock)])
\* the array stored under one key
ListingsOf(rs, key) == SelectSeq(rs, LAMBDA r : NameKey(r.stock) = key)

IsHKListing(r) ==
    ExchangeAt(r.stock) = "HKSE" \/ EndsWith(SymbolAt(r.stock), <<".","H","K">>)
IsChinaListing(r) ==
    \/ Member(ExchangeAt(r.stock), <<"SHH", "SHZ">>)
    \/ EndsWith(SymbolAt(r.stock), <<".","S","S">>)
    \/ EndsWith(SymbolAt(r.stock), <<".","S","Z">>)
IsUSListing(r) == Member(ExchangeAt(r.stock), USExchanges)
\* a location test that accepts every exchange
IsAnyListing(location, r) == TRUE
IsLocalListing(location, r) == Member(ExchangeAt(r.stock), TargetExchanges(location))
IsPrimaryListing(r) == Member(ExchangeAt(r.stock), PrimaryExchanges)

Min(a, b) == IF a < b THEN a ELSE b
\* Math.min(0.99, c * 1.2), Math.min(0.98, c * 1.2), Math.min(0.95, c * 1.05)
BoostLocal(c) == Min(990000, (c * 12) \div 10)
BoostHint(c) == Min(980000, (c * 12) \div 10)
BoostPrimary(c) == Min(950000, (c * 105) \div 100)
\* c * 1.05
BoostUS(c) == (c * 105) \div 100

Boost(kind, c) ==
    CASE kind = "local" -> BoostLocal(c)
      [] kind = "hint" -> BoostHint(c)
      [] kind = "primary" -> BoostPrimary(c)
      [] kind = "US" -> BoostUS(c)
\* listings with the confidence each object has after the boost of that
\* kind was applied to the objects of boosted
Boosted(listings, boosted, kind) ==
    [k \in 1..Len(listings) |->
        IF \E j \in 1..Len(boosted) : boosted[j].stock = listings[k].stock
        THEN [listings[k] EXCEPT !.confidence = Boost(kind, @)]
        ELSE listings[k]]
\* the objects of refs, read from listings (their current confidence)
Deref(refs, listings) ==
    [k \in 1..Len(refs) |->
        listings[CHOOSE j \in 1..Len(listings) : listings[j].stock = refs[k].stock]]

\* market hints that select nothing
NoHintListings(input, sortedListings) == <<>>
\* the listings the market hints of the text select: Hong Kong first, then
\* China, then US; the first hint that selects a listing wins
HintListings(input, sortedListings) ==
    LET hk == SelectSeq(sortedListings, IsHKListing)
        china == SelectSeq(sortedListings, IsChinaListing)
        us == SelectSeq(sortedListings, IsUSListing)
    IN IF Hints[input].hongKong /\ hk # <<>> THEN hk
       ELSE IF Hints[input].china /\ china # <<>> THEN china
       ELSE IF Hints[input].us /\ us # <<>> THEN us
       ELSE <<>>

\* one iteration of crossListingsMap.forEach for a cross-listed company,
\* given its sortedListings: what it pushes onto preferredResults, each
\* object with the confidence it ends up with
PreferredOfSorted(sortedListings, input, location) ==
    LET explicitListings ==
            SelectSeq(sortedListings, LAMBDA r : r.stock \in ExplicitTickers[input])
        localListings ==
            IF TargetExchanges(location) # <<>>
            THEN SelectSeq(sortedListings, LAMBDA r : IsLocalListing(location, r))
            ELSE <<>>
        hintListings == HintListings(input, sortedListings)
        primaryExchangeListings == SelectSeq(sortedListings, IsPrimaryListing)
        hkListings == SelectSeq(sortedListings, IsHKListing)
    IN IF explicitListings # <<>> THEN explicitListings
       ELSE IF hintListings # <<>>
            THEN Deref(localListings \o hintListings,
                       Boosted(Boosted(sortedListings, localListings, "local"),
                               hintListings, "hint"))
       ELSE IF localListings # <<>>
            THEN Deref(localListings, Boosted(sortedListings, localListings, "local"))
       ELSE IF primaryExchangeListings # <<>>
            THEN Boosted(primaryExchangeListings, primaryExchangeListings, "primary")
       ELSE IF hkListings # <<>> THEN hkListings
       ELSE Boosted(sortedListings, SelectSeq(sortedListings, IsUSListing), "US")
\* one iteration of crossListingsMap.forEach
PreferredOf(crossListings, input, location) ==
    IF Len(crossListings) <= 1 THEN crossListings
    ELSE PreferredOfSorted(Sort(crossListings, ByListing(input)), input, location)

\* results, the objects of pushed carrying the confidence they have in pushed
Mutated(results, pushed) ==
    [j \in 1..Len(results) |->
        IF \E m \in 1..Len(pushed) : pushed[m].stock = results[j].stock
        THEN pushed[CHOOSE m \in 1..Len(pushed) : pushed[m].stock = results[j].stock]
        ELSE results[j]]
\* every MatchResult object of results with the confidence it has once the
\* forEach over crossListingsMap is over
RECURSIVE AfterBoosts(_, _, _, _, _)
AfterBoosts(results, keys, k, input, location) ==
    IF k > Len(keys) THEN results
    ELSE AfterBoosts(
             Mutated(results, PreferredOf(ListingsOf(results, keys[k]), input, location)),
             keys, k + 1, input, location)

\* preferredResults after the forEach over crossListingsMap
RECURSIVE CrossListed(_, _, _, _, _)
CrossListed(results, keys, k, input, location) ==
    IF k > Len(keys) THEN <<>>
    ELSE PreferredOf(ListingsOf(results, keys[k]), input, location)
         \o CrossListed(results, keys, k + 1, input, location)

\* results.find(result => result.stock.symbol === sym), as a list of at most
\* one element
Find(results, sym) ==
    LET found == SelectSeq(results, LAMBDA r : SymbolAt(r.stock) = sym)
    IN Take(found, 1)

\* the special handling of HSBC for location HK: both HSBC entries leave
\* preferredResults and come back as new objects with fixed confidences
HsbcSpecial(preferred, results, input, location) ==
    IF input \in HsbcTexts /\ location = "HK"
    THEN LET hsbcHK == Find(results, s0005)
             hsbcUS == Find(results, sHSBC)
             uniqueResults ==
                 SelectSeq(preferred,
                           LAMBDA r : SymbolAt(r.stock) # s0005 /\ SymbolAt(r.stock) # sHSBC)
         IN uniqueResults
            \o [k \in 1..Len(hsbcHK) |-> [stock |-> hsbcHK[k].stock, confidence |-> 990000]]
            \o [k \in 1..Len(hsbcUS) |-> [stock |-> hsbcUS[k].stock, confidence |-> 700000]]
    ELSE preferred

\* the special case of an input that looks like one ticker: the matching
\* object of results is pushed (again)
ExactTickerSpecial(preferred, boostedResults, input) ==
    IF TickerLike[input] # <<>>
    THEN preferred \o Find(boostedResults, TickerLike[input][1])
    ELSE preferred

\* preferredResults as the filters find it
PreferredResults(results, input, location) ==
    ExactTickerSpecial(
        HsbcSpecial(CrossListed(results, CompanyKeys(results), 1, input, location),
                    results, input, location),
        AfterBoosts(results, CompanyKeys(results), 1, input, location), input)

\* a threshold filter that also drops a confidence equal to the threshold
StrictThresholdFilter(rs, confidenceThreshold) ==
    SelectSeq(rs, LAMBDA r : r.confidence > confidenceThreshold)
\* .filter(result => result.confidence >= confidenceThreshold)
ThresholdFilter(rs, confidenceThreshold) ==
    SelectSeq(rs, LAMBDA r : r.confidence >= confidenceThreshold)
\* the location filter: a symbol that occurs in the upper-cased text stays
LocationFilter(rs, input, location) ==
    SelectSeq(rs, LAMBDA r :
        \/ r.stock \in MentionedSymbols[input]
        \/ TargetExchanges(location) = <<>>
        \/ IsLocalListing(location, r))
\* filteredResults
FilteredResults(preferred, input, location, confidenceThreshold) ==
    Sort(LocationFilter(ThresholdFilter(preferred, confidenceThreshold), input, location),
         ByExchange(location))

\* the listing the deduplication keeps of the matches of one company
SelectedMatch(matches, input, location) ==
    LET best(rs) == Sort(rs, ByConfidence)[1]
        exactMatches == SelectSeq(matches, LAMBDA r : r.stock \in MentionedSymbols[input])
        locationMatches ==
            IF location # "global" /\ TargetExchanges(location) # <<>>
            THEN SelectSeq(matches, LAMBDA r : IsLocalListing(location, r))
            ELSE <<>>
        hkMatches == IF Hints[input].hongKong THEN SelectSeq(matches, IsHKListing) ELSE <<>>
        usMatches == IF Hints[input].us THEN SelectSeq(matches, IsUSListing) ELSE <<>>
        chinaMatches == IF Hints[input].china THEN SelectSeq(matches, IsChinaListing) ELSE <<>>
    IN IF Len(matches) = 1 THEN matches[1]
       ELSE IF exactMatches # <<>> THEN best(exactMatches)
       ELSE IF locationMatches # <<>> THEN best(locationMatches)
       ELSE IF hkMatches # <<>> THEN best(hkMatches)
       ELSE IF usMatches # <<>> THEN best(usMatches)
       ELSE IF chinaMatches # <<>> THEN best(chinaMatches)
       ELSE best(matches)

\* a deduplication that keeps every listing
KeepEveryListing(filtered, input, location) == filtered
\* deduplicatedResults: one listing per company, companies in the order of
\* their first listing in filteredResults
DeduplicatedResults(filtered, input, location) ==
    [k \in 1..Len(CompanyKeys(filtered)) |->
        SelectedMatch(ListingsOf(filtered, CompanyKeys(filtered)[k]), input, location)]

\* limitedResults.map(result => result.stock.symbol)
TickersOf(rs) == [k \in 1..Len(rs) |-> SymbolAt(rs[k].stock)]

\* what a findStockTickers call leaves to look at: its arguments, its
\* intermediate lists and the tickers it returns
CallRecord(input, location, confidenceThreshold, maxResults, results, preferredResults, filteredResults, deduplicatedResults) ==
    [input |-> input, location |-> location,
     confidenceThreshold |-> confidenceThreshold, maxResults |-> maxResults,
     results |-> results,
     preferredResults |-> preferredResults,
     filteredResults |-> filteredResults,
     deduplicatedResults |-> deduplicatedResults,
     tickers |-> TickersOf(Take(deduplicatedResults, maxResults)),
     returned |-> TRUE]
\* findStockTickers from the deduplication on
Deduplicate(input, location, confidenceThreshold, maxResults, results, preferredResults, filteredResults) ==
    CallRecord(input, location, confidenceThreshold, maxResults,
               results, preferredResults, filteredResults,
               DeduplicatedResults(filteredResults, input, location))
\* findStockTickers from the filters on
Filter(input, location, confidenceThreshold, maxResults, results, preferredResults) ==
    Deduplicate(input, location, confidenceThreshold, maxResults, results, preferredResults,
                FilteredResults(preferredResults, input, location, confidenceThreshold))
\* findStockTickers from the cross-listing step on
Resolve(input, location, confidenceThreshold, maxResults, results) ==
    Filter(input, location, confidenceThreshold, maxResults, results,
           PreferredResults(results, input, location))
\* findStockTickers(input, location, confidenceThreshold, maxResults)
FindStockTickersRun(fz, index, input, location, confidenceThreshold, maxResults) ==
    Resolve(input, location, confidenceThreshold, maxResults, ParseQuery(fz, index, input))

(***************************************************************************)
(* Part III: extractTickers of TickerExtractorService, with the stock list *)
(* of StockDataService and the indices of StockFuzeMatchingService.        *)
(***************************************************************************)
\* extractTickers texts
tCompareBabaNvda == <<"c","o","m","p","a","r","e"," ","B","A","B","A"," ","a","n","d"," ","N","V","D","A">>
tHongKongAlibaba == <<"\"","H","o","n","g"," ","K","o","n","g"," ","S","t","o","c","k"," ","A","l","i","b","a","b","a"," ","U","p","w","a","r","d"," ","T","r","e","n","d","\"">>
tCompareAlibabaNvidia == <<"c","o","m","p","a","r","e"," ","A","l","i","b","a","b","a"," ","a","n","d"," ","N","v","i","d","i","a">>
ServiceTexts == {tCompareBabaNvda, tHongKongAlibaba, tCompareAlibabaNvidia}
\* texts at the edges of extractTickers: the empty text, a blank text, a
\* text findEntities finds no entity in (its only words are market terms),
\* and a text that names one stock three times, by ticker and by name
tEmpty == <<>>
tBlank == <<" "," ">>
tHongKong == <<"h","o","n","g"," ","k","o","n","g">>
tBabaBabaAlibaba == <<"B","A","B","A",","," ","B","A","B","A",","," ","A","l","i","b","a","b","a">>
InputTexts == {tEmpty, tBlank, tHongKong, tBabaBabaAlibaba}
AllServiceTexts == ServiceTexts \cup InputTexts
\* !translatedQuery || translatedQuery.trim() === ''
BlankTexts == {t \in AllServiceTexts : Trim(t) = <<>>}
ServiceLocations == {"GLOBAL", "US"}

\* what findEntities makes of the texts (compromise, a library outside this
\* code, tags the words): the upper-case words and the nouns that are no
\* stop word, market term or trend word
eAlibaba == <<"A","l","i","b","a","b","a">>
eNvidia == <<"N","v","i","d","i","a">>
ServiceEntities == {sBABA, sNVDA, eAlibaba, eNvidia}
EntitiesOf ==
    [t \in AllServiceTexts |->
        CASE t = tCompareBabaNvda -> <<sBABA, sNVDA>>
          [] t = tHongKongAlibaba -> <<eAlibaba>>
          [] t = tCompareAlibabaNvidia -> <<eAlibaba, eNvidia>>
          [] t = tBabaBabaAlibaba -> <<sBABA, eAlibaba>>
          [] OTHER -> <<>>]

\* LOCATION_EXCHANGES
LOCATION_EXCHANGES ==
    [location \in {"GLOBAL", "US", "CN", "HK"} |->
        CASE location = "GLOBAL" -> <<>>
          [] location = "US" -> <<<<"N","Y","S","E">>, <<"N","A","S","D","A","Q">>, <<"A","M","E","X">>, <<"O","T","C">>>>
          [] location = "CN" -> <<<<"S","H","A","N","G","H","A","I">>, <<"S","H","E","N","Z","H","E","N">>, <<"S","H","H">>, <<"S","H","Z">>>>
          [] location = "HK" -> <<<<"H","O","N","G"," ","K","O","N","G">>, <<"H","O","N","G"," ","K","O","N","G"," ","S","T","O","C","K"," ","E","X","C","H","A","N","G","E">>, <<"H","K","S","E">>, <<"H","K","G">>>>]
\* stock.exchangeShortName?.toUpperCase() as text
ExchangeText(i) ==
    CASE ExchangeAt(i) = "NYSE" -> <<"N","Y","S","E">>
      [] ExchangeAt(i) = "NASDAQ" -> <<"N","A","S","D","A","Q">>
      [] ExchangeAt(i) = "HKSE" -> <<"H","K","S","E">>
      [] ExchangeAt(i) = "OTC" -> <<"O","T","C">>
      [] ExchangeAt(i) = "TSE" -> <<"T","S","E">>
      [] ExchangeAt(i) = "SHH" -> <<"S","H","H">>
      [] ExchangeAt(i) = "SHZ" -> <<"S","H","Z">>
\* stockMatchesLocation(stock, location)
stockMatchesLocation ==
    [i \in Stocks, location \in {"GLOBAL", "US", "CN", "HK"} |->
        \/ location = "GLOBAL"
        \/ \E k \in 1..Len(LOCATION_EXCHANGES[location]) :
              Includes(ExchangeText(i), LOCATION_EXCHANGES[location][k])]

\* the keywords of detectMarketFocus (those written in Chinese cannot occur
\* in the texts here and are left out)
hkKeywords == <<<<"h","o","n","g"," ","k","o","n","g">>, <<"h","k"," ","s","t","o","c","k">>, <<"h","o","n","g"," ","k","o","n","g"," ","s","t","o","c","k">>, <<"h","o","n","g"," ","k","o","n","g"," ","s","t","o","c","k","s">>, <<"h","k","s","e">>, <<"h","k","e","x">>>>
cnKeywords == <<<<"s","h","a","n","g","h","a","i">>, <<"s","h","e","n","z","h","e","n">>, <<"a","-","s","h","a","r","e">>, <<"a"," ","s","h","a","r","e">>, <<"c","h","i","n","a"," ","s","t","o","c","k">>, <<"c","h","i","n","a"," ","s","t","o","c","k","s">>, <<"c","h","i","n","e","s","e"," ","s","t","o","c","k">>, <<"c","h","i","n","e","s","e"," ","s","t","o","c","k","s">>>>
usKeywords == <<<<"n","a","s","d","a","q">>, <<"n","y","s","e">>, <<"u","s"," ","s","t","o","c","k">>, <<"u","s"," ","s","t","o","c","k","s">>, <<"a","m","e","r","i","c","a","n"," ","s","t","o","c","k">>, <<"a","m","e","r","i","c","a","n"," ","s","t","o","c","k","s">>, <<"w","a","l","l"," ","s","t","r","e","e","t">>, <<"u","s"," ","s","h","a","r","e">>, <<"u","s"," ","s","h","a","r","e","s">>>>
SomeKeyword(keywords, normalizedQuery) ==
    \E k \in 1..Len(keywords) : Includes(normalizedQuery, keywords[k])
\* detectMarketFocus(queryText), "null" when no keyword is found
detectMarketFocus ==
    [t \in AllServiceTexts |->
        IF SomeKeyword(hkKeywords, ToLowerCase(t)) THEN "HK"
        ELSE IF SomeKeyword(cnKeywords, ToLowerCase(t)) THEN "CN"
        ELSE IF SomeKeyword(usKeywords, ToLowerCase(t)) THEN "US"
        ELSE "null"]

\* the catalog records Fuse.js returns for a query (extended search over
\* name and symbol), and the symbol a query is when upper-cased
ServiceHits == [query \in ServiceEntities |-> {i \in Stocks : Related(query, i)}]
HitPairs == {p \in ServiceEntities \X Stocks : p[2] \in ServiceHits[p[1]]}
\* this.stockInfoMap.get(entity.toUpperCase()), 0 when there is none
DirectOf == [entity \in ServiceEntities |-> SymbolMap(ToUpperCase(entity))]

\* the scores Fuse.js can give the hits: a query that is a symbol scores
\* 0.005 on the record of that symbol and 0.3 on any other record it hits;
\* the score of a name query on a record is either
FuseScores ==
    {sc \in [HitPairs -> Scores] :
        \A p \in HitPairs :
            DirectOf[p[1]] # 0 => sc[p] = IF DirectOf[p[1]] = p[2] THEN 5000 ELSE 300000}

\* one of them, for the behaviours in which no search is scored
RestScores == [p \in HitPairs |-> IF DirectOf[p[1]] = p[2] THEN 5000 ELSE 300000]

\* the two StockFuzeMatchingService sources: the one whose search awaits
\* initializationPromise and whose searchStocks always follows a market
\* keyword, and the one without initializationPromise whose searchStocks
\* follows a market keyword for location GLOBAL only
Revisions == {"awaiting", "rejecting"}

\* the stocks initialize() puts into the index of a location
fuseIndices(revision, location) ==
    LET usExchanges == IF revision = "awaiting" THEN {"NYSE", "NASDAQ", "AMEX"}
                       ELSE {"NYSE", "NASDAQ", "AMEX", "OTC"}
        cnExchanges == IF revision = "awaiting" THEN {"SHH", "SHZ"}
                       ELSE {"SHANGHAI", "SHENZHEN", "SHH", "SHZ"}
        hkExchanges == IF revision = "awaiting" THEN {"HKSE"}
                       ELSE {"HONG KONG STOCK EXCHANGE", "HKSE", "HKG"}
    IN CASE location = "GLOBAL" -> Stocks
         [] location = "US" -> {i \in Stocks : ExchangeAt(i) \in usExchanges}
         [] location = "CN" -> {i \in Stocks : ExchangeAt(i) \in cnExchanges}
         [] location = "HK" -> {i \in Stocks : ExchangeAt(i) \in hkExchanges}

NoResult == [found |-> FALSE, item |-> 0, score |-> 0]
\* search(query, location) on initialized indices: the hit with the best
\* score (Fuse.js puts the earlier record first among equal scores), or null
search(revision, sc, query, location) ==
    LET hits == fuseIndices(revision, location) \cap ServiceHits[query]
    IN IF hits = {} THEN NoResult
       ELSE LET top == CHOOSE i \in hits :
                          \A j \in hits :
                             \/ sc[<<query, i>>] < sc[<<query, j>>]
                             \/ sc[<<query, i>>] = sc[<<query, j>>] /\ i <= j
            IN [found |-> TRUE, item |-> top, score |-> sc[<<query, top>>]]
AsList(result) == IF result.found THEN <<result>> ELSE <<>>

\* the location searchStocks searches first
focusedMarketLocation(revision, userSelectedLocation, selectedLanguage, queryText) ==
    LET detectedMarket == detectMarketFocus[queryText]
        afterKeyword ==
            IF /\ detectedMarket # "null"
               /\ revision = "awaiting" \/ userSelectedLocation = "GLOBAL"
            THEN detectedMarket ELSE userSelectedLocation
    IN IF afterKeyword = "GLOBAL" /\ selectedLanguage = "zh-CN" THEN "CN"
       ELSE IF afterKeyword = "GLOBAL" /\ selectedLanguage = "zh-TW" THEN "HK"
       ELSE afterKeyword
\* searchStocks(query, userSelectedLocation, selectedLanguage, queryText) on
\* initialized indices
SearchIn(revision, sc, query, userSelectedLocation, focused) ==
    IF revision = "awaiting" /\ focused # userSelectedLocation
       /\ ~search(revision, sc, query, focused).found
    THEN AsList(search(revision, sc, query, userSelectedLocation))
    ELSE AsList(search(revision, sc, query, focused))
searchStocks(revision, sc, query, userSelectedLocation, selectedLanguage, queryText) ==
    SearchIn(revision, sc, query, userSelectedLocation,
             focusedMarketLocation(revision, userSelectedLocation, selectedLanguage, queryText))

(***************************************************************************)
(* Stock objects.  The records of stockInfoMap and the records of the Fuse *)
(* indices come from two getStockList() calls and are different objects;   *)
(* findDirectMatches and findFuzzyMatches write _directSymbolMatch and     *)
(* _matchScore onto them.                                                  *)
(***************************************************************************)
Graphs == {"stockInfoMap", "fuseIndices"}
MapObject(i) == [graph |-> "stockInfoMap", id |-> i]
IndexObject(i) == [graph |-> "fuseIndices", id |-> i]
Untagged == [tagged |-> FALSE, directSymbolMatch |-> FALSE, matchScore |-> 0]
DirectTag == [tagged |-> TRUE, directSymbolMatch |-> TRUE, matchScore |-> 0]
FuzzyTag(score) == [tagged |-> TRUE, directSymbolMatch |-> FALSE, matchScore |-> score]
NoMatchInfo == [g \in Graphs |-> [i \in Stocks |-> Untagged]]

\* findDirectMatches(entities, location): the records found and accepted
findDirectMatches(entities, location, mapFilled) ==
    IF mapFilled
    THEN SelectSeq([k \in 1..Len(entities) |-> DirectOf[entities[k]]],
                   LAMBDA i : i # 0 /\ stockMatchesLocation[i, location])
    ELSE <<>>
\* the tags findDirectMatches leaves
RECURSIVE TagDirect(_, _, _)
TagDirect(info, directMatches, k) ==
    IF k > Len(directMatches) THEN info
    ELSE TagDirect([info EXCEPT !["stockInfoMap"][directMatches[k]] = DirectTag],
                   directMatches, k + 1)
\* the tags the map callback of findFuzzyMatches leaves for its results
RECURSIVE TagFuzzy(_, _, _)
TagFuzzy(info, matchResults, k) ==
    IF k > Len(matchResults) THEN info
    ELSE TagFuzzy([info EXCEPT !["fuseIndices"][matchResults[k].item] =
                                    FuzzyTag(matchResults[k].score)],
                  matchResults, k + 1)

\* a deduplication that keeps every object
keepEveryObject(stocks, k, uniqueStocks) == stocks
\* deduplicate(stocks): the first object of every symbol
RECURSIVE deduplicate(_, _, _)
deduplicate(stocks, k, uniqueStocks) ==
    IF k > Len(stocks) THEN uniqueStocks
    ELSE deduplicate(stocks, k + 1,
            IF \E n \in 1..Len(uniqueStocks) : uniqueStocks[n].id = stocks[k].id
            THEN uniqueStocks ELSE Append(uniqueStocks, stocks[k]))

\* an object as the comparators of prioritizeExchanges read it
Read(info, stock) ==
    [stock |-> stock,
     isDirectMatch |-> info[stock.graph][stock.id].directSymbolMatch,
     matchScoreOr1 |-> IF info[stock.graph][stock.id].matchScore # 0
                       THEN info[stock.graph][stock.id].matchScore ELSE One,
     exchange |-> ExchangeAt(stock.id)]
Comparator(location) ==
    CASE location = "GLOBAL" -> ByMatchInfo
      [] location = "US" -> ByUSExchange
      [] location = "CN" -> ByCNExchange
\* prioritizeExchanges(stocks, location) with the tags as they are now
prioritizeExchanges(stocks, location, info) ==
    IF Len(stocks) <= 1 \/ location = "HK" THEN stocks
    ELSE LET sorted == Sort([k \in 1..Len(stocks) |-> Read(info, stocks[k])],
                            Comparator(location))
         IN [k \in 1..Len(sorted) |-> sorted[k].stock]
Objects(directMatches, fuzzyMatches) ==
    [k \in 1..Len(directMatches) |-> MapObject(directMatches[k])]
        \o [k \in 1..Len(fuzzyMatches) |-> IndexObject(fuzzyMatches[k].item)]
\* the end of extractTickers: deduplicate, prioritizeExchanges
SortedMatches(directMatches, fuzzyMatches, location, info) ==
    prioritizeExchanges(deduplicate(Objects(directMatches, fuzzyMatches), 1, <<>>),
                        location, info)
SymbolIds(stocks) == [k \in 1..Len(stocks) |-> stocks[k].id]

(***************************************************************************)
(* The parser as a state machine.                                          *)
(*   fuse        what Fuse.js answers (fixed for a behaviour)              *)
(*   indexCache  this.indexCache of the parser instance                    *)
(*   call        the last findStockTickers call with all its lists         *)
(*   memo        an earlier call, kept for comparison                      *)
(* and the services:                                                       *)
(*   catalog     what getStockList() comes to                              *)
(*   stockCache  the version of the stock list in the cache file           *)
(*   fuseScore   the scores Fuse.js gives (fixed for a behaviour)          *)
(*   fuze        StockFuzeMatchingService: source in use, isInitialized,   *)
(*               its initialize(), the version its indices were built from *)
(*   extractor   TickerExtractorService: isInitialized, stockInfoMap       *)
(*               filled and from which version, the constructor's init()   *)
(*   requests    the extractTickers calls in progress                      *)
(*   matchInfo   _directSymbolMatch and _matchScore of the shared objects  *)
(*   cacheFile   CACHE_FILE of StockDataService: whether it exists, its    *)
(*               timestamp and the stock list it holds                     *)
(*   now         Date.now()                                                *)
(*   secretToken process.env.CRON_SECRET_TOKEN                             *)
(*   jobs        the getStockList, updateStockCache and GET calls in       *)
(*               progress                                                  *)
(***************************************************************************)
VARIABLES fuse, indexCache, call, memo,
          catalog, fuseScore, fuze, extractor, requests, matchInfo, stockCache,
          cacheFile, now, secretToken, jobs

parserVars == <<fuse, indexCache, call, memo>>
serviceVars == <<catalog, fuseScore, fuze, extractor, requests, matchInfo, stockCache>>
cacheVars == <<cacheFile, now, secretToken, jobs>>
vars == <<parserVars, serviceVars, cacheVars>>

\* CACHE_EXPIRY = 60 * 60 * 1000, one hour in milliseconds
CACHE_EXPIRY == 3600000
\* the step of the clock
HalfHour == CACHE_EXPIRY \div 2
\* Date.now() when the process starts
StartTime == 2 * CACHE_EXPIRY
\* the number of getStockList, updateStockCache and GET calls that can be
\* in progress at once
MaxJobs == 2
Jobs == 1..MaxJobs
\* no cache file
NoFile == [exists |-> FALSE, timestamp |-> 0, data |-> 0]
\* a call slot not in use
NoJob ==
    [op |-> "none", pc |-> "idle", token |-> "none", fetch |-> "none", outcome |-> "none",
     result |-> 0, apiCalls |-> 0, updateCalls |-> 0]
\* the cache as the parser and extractor specifications keep it
CacheAtRest ==
    /\ cacheFile = NoFile
    /\ now = StartTime
    /\ secretToken = "undefined"
    /\ jobs = [c \in Jobs |-> NoJob]

\* getStockList() resolves with the stock list, resolves with an empty
\* list, or throws
Catalogs == {"list", "empty", "fails"}
\* the number of extractTickers calls that can be in progress at once
MaxCalls == 2
Slots == 1..MaxCalls
\* selectedLanguage of the calls
selectedLanguage == "en"
Idle ==
    [pc |-> "idle", text |-> <<>>, location |-> "GLOBAL",
     directMatches |-> <<>>, pending |-> <<>>, fuzzyMatches |-> <<>>,
     indexReady |-> FALSE, lookups |-> 0, searches |-> 0, epoch |-> 0, mapEpoch |-> 0, indexEpoch |-> 0, sortedMatches |-> <<>>, outcome |-> "pending"]
\* the services initialized and idle, as the parser specifications keep them
ServiceAtRest ==
    /\ catalog = "list"
    /\ fuseScore = RestScores
    /\ fuze = [revision |-> "awaiting", isInitialized |-> TRUE, initialize |-> "fulfilled", indexVersion |-> 1]
    /\ extractor = [isInitialized |-> TRUE, mapFilled |-> TRUE, constructorInit |-> FALSE, mapVersion |-> 1]
    /\ stockCache = 1
    /\ requests = [c \in Slots |-> Idle]
    /\ matchInfo = NoMatchInfo


Locations == {"global", "US", "HK", "CN"}
\* confidenceThreshold values: the default 0.3, 0.8 and 0.995
Thresholds == {300000, 800000, 995000}
NoHit == [hit |-> FALSE, score |-> 0]
\* the score of a perfect match, the value at which result.score is falsy
PerfectScore == 0
\* the single listings and the two over-the-counter/Tokyo listings are
\* always found; the records cross-listed in the US and on HKSE vary
FuseAnswers ==
    {fz \in [Stocks -> {NoHit} \cup {[hit |-> TRUE, score |-> sc] : sc \in Scores \cup {PerfectScore}}] :
        /\ fz[5] = [hit |-> TRUE, score |-> 300000]
        /\ fz[6] = [hit |-> TRUE, score |-> 5000]
        /\ fz[7] = [hit |-> TRUE, score |-> 300000]
        /\ fz[8] = [hit |-> TRUE, score |-> 300000]
        /\ fz[9] = [hit |-> TRUE, score |-> 5000]}

NoCall ==
    [input |-> <<>>, location |-> "global", confidenceThreshold |-> 0, maxResults |-> 0,
     results |-> <<>>, preferredResults |-> <<>>, filteredResults |-> <<>>,
     deduplicatedResults |-> <<>>, tickers |-> <<>>, returned |-> FALSE]

\* the state after new StockTickerParser(stockList)
Init ==
    /\ fuse \in FuseAnswers
    /\ indexCache = "null"
    /\ call = NoCall
    /\ memo = NoCall
    /\ ServiceAtRest
    /\ CacheAtRest

\* createIndex(): builds the index and caches it (config.useCache)
CreateIndex ==
    /\ indexCache = "null"
    /\ indexCache' = "cached"
    /\ UNCHANGED <<fuse, call, memo, serviceVars, cacheVars>>

\* findStockTickers(input, location, confidenceThreshold, maxResults); its
\* parseQuery leaves an index in indexCache
FindStockTickers ==
    \E input \in Texts, location \in Locations,
       confidenceThreshold \in Thresholds, maxResults \in 0..MaxResultsBound :
        /\ ~call.returned
        /\ call' = FindStockTickersRun(fuse, indexCache, input, location,
                                       confidenceThreshold, maxResults)
        /\ indexCache' = "cached"
        /\ UNCHANGED <<fuse, memo, serviceVars, cacheVars>>

\* the caller is done with the returned list; the parser is idle again
Release ==
    /\ call.returned
    /\ call' = NoCall
    /\ UNCHANGED <<fuse, indexCache, memo, serviceVars, cacheVars>>

Next == CreateIndex \/ FindStockTickers \/ Release

Spec == Init /\ [][Next]_vars

(***************************************************************************)
(* Properties of findStockTickers                                          *)
(***************************************************************************)
SymbolsOf(rs) == {SymbolAt(rs[k].stock) : k \in 1..Len(rs)}
Returned(sym) == Member(sym, call.tickers)
\* the companies parseQuery matched
MatchedCompanies == {NameKey(call.results[k].stock) : k \in 1..Len(call.results)}
\* parseQuery matched record i at or above the threshold of the call
MatchedAtThreshold(i) ==
    \E k \in 1..Len(call.results) :
        call.results[k].stock = i /\ call.results[k].confidence >= call.confidenceThreshold
Matched(i) == \E k \in 1..Len(call.results) : call.results[k].stock = i
\* u is a listing on a US exchange and h the HKSE listing of the same company
CrossListedPair(u, h) ==
    /\ NameKey(u) = NameKey(h)
    /\ Member(ExchangeAt(u), USExchanges)
    /\ ExchangeAt(h) = "HKSE"
\* the text of the call holds no market keyword
NoMarketKeyword ==
    /\ ~Hints[call.input].hongKong /\ ~Hints[call.input].us /\ ~Hints[call.input].china
\* neither symbol is a token of the (upper-cased) text of the call
ByNameOnly(u, h) ==
    u \notin ExplicitTickers[call.input] /\ h \notin ExplicitTickers[call.input]

\* C1: the list findStockTickers returns never holds the same symbol twice
\* and never holds two symbols whose records have the same company name,
\* compared case-insensitively.
C1_NoDuplicateSymbolOrCompany ==
    call.returned =>
        \A i, j \in 1..Len(call.tickers) :
            i # j => /\ call.tickers[i] # call.tickers[j]
                     /\ CompanyOf(call.tickers[i]) # CompanyOf(call.tickers[j])
\* a call whose filtered list held two different listings of one company,
\* one of which is returned
C1_Witness ==
    /\ call.returned
    /\ \E i, j \in 1..Len(call.filteredResults) :
          /\ call.filteredResults[i].stock # call.filteredResults[j].stock
          /\ NameKey(call.filteredResults[i].stock) = NameKey(call.filteredResults[j].stock)
          /\ Returned(SymbolAt(call.filteredResults[i].stock))

C3_ExplicitMentionOverride ==
    \A i \in Stocks :
        (/\ call.returned
         /\ Member(SymbolAt(i), SplitWS(call.input))
         /\ TargetExchanges(call.location) # <<>>
         /\ ~IsLocalListing(call.location, [stock |-> i])
         /\ Cardinality(MatchedCompanies) <= call.maxResults)
        => Returned(SymbolAt(i))

\* C4 as stated: location global, a Hong Kong keyword in the text, a company
\* listed in the US and on HKSE named by name (both listings matched,
\* neither symbol a token of the text): the HKSE listing is returned and
\* the US listing is not.
C4_AsStated ==
    \A u, h \in Stocks :
        (/\ call.returned /\ CrossListedPair(u, h)
         /\ call.location = "global" /\ Hints[call.input].hongKong
         /\ ByNameOnly(u, h) /\ Matched(u) /\ Matched(h))
        => Returned(SymbolAt(h)) /\ ~Returned(SymbolAt(u))
\* C4, amended: the same, when both listings matched at or above the
\* threshold, the threshold is at most 0.98 (the cap of the hint boost) and
\* the matched companies are at most maxResults.
C4_MarketHintOverride ==
    \A u, h \in Stocks :
        (/\ call.returned /\ CrossListedPair(u, h)
         /\ call.location = "global" /\ Hints[call.input].hongKong
         /\ ByNameOnly(u, h)
         /\ MatchedAtThreshold(u) /\ MatchedAtThreshold(h)
         /\ call.confidenceThreshold <= 980000
         /\ Cardinality(MatchedCompanies) <= call.maxResults)
        => Returned(SymbolAt(h)) /\ ~Returned(SymbolAt(u))
\* a global call with a Hong Kong keyword that returned the HKSE listing of
\* a company whose two listings both matched
C4_Witness ==
    \E u, h \in Stocks :
        /\ call.returned /\ CrossListedPair(u, h)
        /\ call.location = "global" /\ Hints[call.input].hongKong
        /\ ByNameOnly(u, h)
        /\ MatchedAtThreshold(u) /\ MatchedAtThreshold(h)
        /\ call.confidenceThreshold <= 980000
        /\ Cardinality(MatchedCompanies) <= call.maxResults
        /\ Returned(SymbolAt(h)) /\ ~Returned(SymbolAt(u))

(***************************************************************************)
(* Repeated calls on one parser instance.  memo keeps one returned call    *)
(* and counts the calls with other arguments made since; a later call with *)
(* the same arguments is compared with it.                                 *)
(***************************************************************************)
MaxBetween == 2
RepeatTexts == {tAlibabaStock, tHSBCAlibaba, tAlibabaHongKong}
RepeatLocations == {"US", "HK"}
RepeatThresholds == {300000}

NoMemo == [first |-> NoCall, between |-> 0]

InitRepeat ==
    /\ fuse \in FuseAnswers
    /\ indexCache = "null"
    /\ call = NoCall
    /\ memo = NoMemo
    /\ ServiceAtRest
    /\ CacheAtRest

SameArguments(a, b) ==
    /\ a.input = b.input
    /\ a.location = b.location
    /\ a.confidenceThreshold = b.confidenceThreshold
    /\ a.maxResults = b.maxResults

\* findStockTickers on the instance that may already have answered the
\* remembered call
RepeatFindStockTickers ==
    \E input \in RepeatTexts, location \in RepeatLocations,
       confidenceThreshold \in RepeatThresholds, maxResults \in 1..MaxResultsBound :
        /\ ~call.returned
        /\ call' = FindStockTickersRun(fuse, indexCache, input, location,
                                       confidenceThreshold, maxResults)
        /\ indexCache' = "cached"
        /\ IF memo.first.returned /\ ~SameArguments(memo.first, call')
           THEN /\ memo.between < MaxBetween
                /\ memo' = [memo EXCEPT !.between = memo.between + 1]
           ELSE memo' = memo
        /\ UNCHANGED <<fuse, serviceVars, cacheVars>>

\* the caller keeps the list a call returned
Remember ==
    /\ call.returned
    /\ ~memo.first.returned
    /\ memo' = [first |-> call, between |-> 0]
    /\ call' = NoCall
    /\ UNCHANGED <<fuse, indexCache, serviceVars, cacheVars>>

NextRepeat == CreateIndex \/ RepeatFindStockTickers \/ Remember \/ Release

SpecRepeat == InitRepeat /\ [][NextRepeat]_vars

EmptyList == <<>>

\* getStockList() resolved in the constructor's or a call's init()
InitDone(e) ==
    CASE catalog = "list" -> [e EXCEPT !.isInitialized = TRUE, !.mapFilled = TRUE,
                                        !.mapVersion = stockCache]
      [] catalog = "empty" -> [e EXCEPT !.isInitialized = TRUE]
      [] catalog = "fails" -> e

InitService ==
    /\ fuse = [i \in Stocks |-> NoHit]
    /\ indexCache = "null"
    /\ call = NoCall
    /\ memo = NoCall
    /\ catalog \in Catalogs
    /\ fuseScore \in FuseScores
    /\ catalog # "list" => fuseScore = RestScores
    /\ fuze \in {[revision |-> r, isInitialized |-> FALSE, initialize |-> "pending", indexVersion |-> 0] : r \in Revisions}
    /\ extractor = [isInitialized |-> FALSE, mapFilled |-> FALSE, constructorInit |-> TRUE, mapVersion |-> 0]
    /\ stockCache = 1
    /\ requests = [c \in Slots |-> Idle]
    /\ matchInfo = NoMatchInfo
    /\ CacheAtRest

\* initialize() of StockFuzeMatchingService comes to its end
InitializeResolved ==
    /\ fuze.initialize = "pending"
    /\ fuze' = IF catalog = "list" \/ (catalog = "empty" /\ fuze.revision = "rejecting")
               THEN [fuze EXCEPT !.isInitialized = TRUE, !.initialize = "fulfilled",
                                 !.indexVersion = stockCache]
               ELSE [fuze EXCEPT !.isInitialized = FALSE, !.initialize = "rejected"]
    /\ UNCHANGED <<parserVars, cacheVars, stockCache, catalog, fuseScore, extractor, requests, matchInfo>>

\* the init() the constructor of TickerExtractorService started comes to
\* its end
ConstructorInitResolved ==
    /\ extractor.constructorInit
    /\ extractor' = [InitDone(extractor) EXCEPT !.constructorInit = FALSE]
    /\ UNCHANGED <<parserVars, cacheVars, stockCache, catalog, fuseScore, fuze, requests, matchInfo>>

\* extractTickers(text, location, 'en') up to its first await, or to its
\* return for an empty or blank text
Extract(c, text, location) ==
    /\ requests[c].pc = "idle"
    /\ requests' = [requests EXCEPT ![c] =
          IF text \in BlankTexts
          THEN [Idle EXCEPT !.text = text, !.location = location,
                            !.pc = "returned", !.outcome = "fulfilled",
                            !.sortedMatches = EmptyList]
          ELSE [Idle EXCEPT !.text = text, !.location = location,
                            !.epoch = stockCache,
                            !.pc = IF ~extractor.isInitialized \/ ~extractor.mapFilled
                                   THEN "init" ELSE "findEntities"]]
    /\ UNCHANGED <<parserVars, cacheVars, stockCache, catalog, fuseScore, fuze, extractor, matchInfo>>
\* a call with one of the texts that name stocks
ExtractTickers(c) ==
    \E text \in ServiceTexts, location \in ServiceLocations : Extract(c, text, location)

\* the init() a call awaits comes to its end; when it throws, the catch of
\* extractTickers returns []
InitResolved(c) ==
    /\ requests[c].pc = "init"
    /\ extractor' = InitDone(extractor)
    /\ requests' = [requests EXCEPT ![c] =
          IF catalog = "fails"
          THEN [@ EXCEPT !.pc = "returned", !.outcome = "fulfilled", !.sortedMatches = EmptyList]
          ELSE [@ EXCEPT !.pc = "findEntities"]]
    /\ UNCHANGED <<parserVars, cacheVars, stockCache, catalog, fuseScore, fuze, matchInfo>>

\* a test that finds every list of entities worth looking up
AlwaysEntities(entities) == FALSE
\* entities.length === 0
NoEntities(entities) == entities = <<>>

\* findEntities resolved: with no entity the call returns []; otherwise
\* findDirectMatches runs and findFuzzyMatches starts one searchStocks per
\* entity
FindMatches(c) ==
    /\ requests[c].pc = "findEntities"
    /\ LET entities == EntitiesOf[requests[c].text]
           directMatches == findDirectMatches(entities, requests[c].location, extractor.mapFilled)
       IN IF NoEntities(entities)
          THEN /\ requests' = [requests EXCEPT ![c] =
                     [@ EXCEPT !.pc = "returned", !.outcome = "fulfilled", !.sortedMatches = EmptyList]]
               /\ UNCHANGED matchInfo
          ELSE /\ requests' = [requests EXCEPT ![c] =
                     [@ EXCEPT !.pc = "findFuzzyMatches",
                               !.directMatches = directMatches,
                               !.pending = entities,
                               !.lookups = 1,
                               !.mapEpoch = extractor.mapVersion,
                               !.searches = Len(entities),
                               !.indexReady = fuze.isInitialized]]
               /\ matchInfo' = TagDirect(matchInfo, directMatches, 1)
    /\ UNCHANGED <<parserVars, cacheVars, stockCache, catalog, fuseScore, fuze, extractor>>

\* what the searchStocks of a call comes to: the search runs when the
\* indices were initialized at the time of the call or, awaiting, once
\* initializationPromise is fulfilled; a rejected search makes searchStocks
\* return []
SearchRuns(c) ==
    /\ catalog = "list"
    /\ \/ requests[c].indexReady
       \/ fuze.revision = "awaiting" /\ fuze.initialize = "fulfilled"
MatchResults(c, query) ==
    IF SearchRuns(c)
    THEN searchStocks(fuze.revision, fuseScore, query, requests[c].location,
                      selectedLanguage, requests[c].text)
    ELSE <<>>

\* the searchStocks of the next entity resolves and the map callback of
\* findFuzzyMatches tags its result
SearchResolved(c) ==
    /\ requests[c].pc = "findFuzzyMatches"
    /\ requests[c].pending # <<>>
    /\ \/ requests[c].indexReady
       \/ fuze.revision = "rejecting"
       \/ fuze.initialize # "pending"
    /\ requests' = [requests EXCEPT ![c] =
          [@ EXCEPT !.pending = Tail(@),
                    !.indexEpoch = IF SearchRuns(c) THEN fuze.indexVersion ELSE @,
                    !.fuzzyMatches = @ \o MatchResults(c, Head(requests[c].pending))]]
    /\ matchInfo' = TagFuzzy(matchInfo, MatchResults(c, Head(requests[c].pending)), 1)
    /\ UNCHANGED <<parserVars, cacheVars, stockCache, catalog, fuseScore, fuze, extractor>>

\* Promise.all resolved: deduplicate, prioritizeExchanges, return
SortMatches(c) ==
    /\ requests[c].pc = "findFuzzyMatches"
    /\ requests[c].pending = <<>>
    /\ requests' = [requests EXCEPT ![c] =
          [@ EXCEPT !.pc = "returned", !.outcome = "fulfilled",
                    !.sortedMatches =
                        SymbolIds(SortedMatches(requests[c].directMatches,
                                                requests[c].fuzzyMatches,
                                                requests[c].location, matchInfo))]]
    /\ UNCHANGED <<parserVars, cacheVars, stockCache, catalog, fuseScore, fuze, extractor, matchInfo>>

\* the caller has taken the list
Return(c) ==
    /\ requests[c].pc = "returned"
    /\ requests' = [requests EXCEPT ![c] = Idle]
    /\ UNCHANGED <<parserVars, cacheVars, stockCache, catalog, fuseScore, fuze, extractor, matchInfo>>

NextService ==
    \/ InitializeResolved
    \/ ConstructorInitResolved
    \/ \E c \in Slots : ExtractTickers(c)
    \/ \E c \in Slots : InitResolved(c)
    \/ \E c \in Slots : FindMatches(c)
    \/ \E c \in Slots : SearchResolved(c)
    \/ \E c \in Slots : SortMatches(c)
    \/ \E c \in Slots : Return(c)

SpecService == InitService /\ [][NextService]_vars

(***************************************************************************)
(* Properties of extractTickers                                            *)
(***************************************************************************)
\* the call in slot c has returned and the stock list was there
Answered(c) == requests[c].pc = "returned" /\ catalog = "list"
\* the matchResults of all entities against initialized indices
RECURSIVE AllMatchResults(_, _, _, _, _)
AllMatchResults(revision, entities, k, location, text) ==
    IF k > Len(entities) THEN <<>>
    ELSE searchStocks(revision, fuseScore, entities[k], location, selectedLanguage, text)
            \o AllMatchResults(revision, entities, k + 1, location, text)
\* the list of a call that runs with no other call in progress: its tags
\* are the ones it wrote itself
SortedAlone(directMatches, fuzzyMatches, location) ==
    SymbolIds(SortedMatches(directMatches, fuzzyMatches, location,
                            TagFuzzy(TagDirect(NoMatchInfo, directMatches, 1), fuzzyMatches, 1)))
Alone(revision, text, location) ==
    SortedAlone(findDirectMatches(EntitiesOf[text], location, TRUE),
                AllMatchResults(revision, EntitiesOf[text], 1, location, text),
                location)
\* the init() runs in flight: the constructor's and those of the calls
BuildsInFlight ==
    (IF extractor.constructorInit THEN 1 ELSE 0)
        + Cardinality({c \in Slots : requests[c].pc = "init"})

\* C5: when the text holds a keyword of a market other than the selected
\* location, every entity is searched in the keyword's market, and the
\* listing found there is in the list extractTickers returns (indices
\* initialized before the call searched).
C5_KeywordMarketSearched ==
    \A c \in Slots :
        (/\ Answered(c) /\ requests[c].indexReady
         /\ detectMarketFocus[requests[c].text] # "null"
         /\ detectMarketFocus[requests[c].text] # requests[c].location)
        => \A k \in 1..Len(EntitiesOf[requests[c].text]) :
              LET hinted == search(fuze.revision, fuseScore, EntitiesOf[requests[c].text][k],
                                   detectMarketFocus[requests[c].text])
              IN hinted.found => Member(hinted.item, requests[c].sortedMatches)

\* C7: the list an extractTickers call returns, content and order, is the
\* list the same call returns with no other call in progress (stock list
\* there, indices initialized before the call searched).
C7_NoInterference ==
    \A c \in Slots :
        (Answered(c) /\ requests[c].indexReady)
        => requests[c].sortedMatches
              = Alone(fuze.revision, requests[c].text, requests[c].location)

\* C8: a call whose searches arrive before the indices are initialized gets,
\* once the stock list is indexed, the search results it would get against
\* the finished indices; it gets no empty result for the indices not being
\* ready.
C8_SearchAwaitsInitialization ==
    \A c \in Slots :
        (Answered(c) /\ ~requests[c].indexReady)
        => requests[c].fuzzyMatches
              = AllMatchResults(fuze.revision, EntitiesOf[requests[c].text], 1,
                                requests[c].location, requests[c].text)

\* C9: at most one init() of TickerExtractorService is in flight at any
\* time.
C9_AtMostOneBuild == BuildsInFlight <= 1

\* C10: when getStockList() throws or yields an empty list, an extractTickers
\* call ends in a failure its caller sees, never in a fulfilled (empty)
\* list.
C10_UnavailableCatalogSurfaced ==
    \A c \in Slots :
        (requests[c].pc = "returned" /\ catalog # "list")
        => requests[c].outcome = "rejected"

(***************************************************************************)
(* Further properties of findStockTickers (specification Spec)             *)
(***************************************************************************)
\* the candidates of the text of the call
CallCandidates == Candidates[call.input]
\* candidate k of the call equals the symbol of record i ignoring letter case
NamesSymbol(k, i) == ToUpperCase(CallCandidates[k]) = SymbolAt(i)
\* record i is listed in the scope of the call, or its symbol is a token of
\* the upper-cased text
InScopeOrExplicit(i) ==
    \/ TargetExchanges(call.location) = <<>>
    \/ IsLocalListing(call.location, [stock |-> i])
    \/ i \in ExplicitTickers[call.input]

\* C12: a candidate that equals a catalog symbol ignoring letter case is
\* matched by parseQuery as an exact match with confidence 1.0, and its
\* symbol is returned whenever the listing is in the requested scope or the
\* symbol is a token of the text (the matched companies being at most
\* maxResults).
C12_ExactMatchSupremacy ==
    call.returned =>
        \A k \in 1..Len(CallCandidates), i \in Stocks :
            NamesSymbol(k, i) =>
                /\ \E j \in 1..Len(call.results) :
                       call.results[j] = [stock |-> i, confidence |-> One]
                /\ (InScopeOrExplicit(i) /\ Cardinality(MatchedCompanies) <= call.maxResults)
                       => Returned(SymbolAt(i))

\* the records the exact-match loop of parseQuery matched in the call
ExactStocks ==
    LET exact == ExactMatches(CallCandidates, 1, <<>>)
    IN {exact[k].stock : k \in 1..Len(exact)}
\* the MatchResult objects of the call stage by stage: what parseQuery
\* returned, the same objects once the cross-listing step has run, and the
\* three lists built from them
Stages ==
    <<call.results,
      AfterBoosts(call.results, CompanyKeys(call.results), 1, call.input, call.location),
      call.preferredResults, call.filteredResults, call.deduplicatedResults,
      Take(call.deduplicatedResults, call.maxResults)>>

\* C13: in findStockTickers every match of the exact lookup has confidence
\* 1.0 at every stage up to the final result, and no other match ever has
\* confidence 1.0.
C13_ExactConfidenceIsOne ==
    call.returned =>
        \A s \in 1..Len(Stages) : \A k \in 1..Len(Stages[s]) :
            (Stages[s][k].stock \in ExactStocks) <=> (Stages[s][k].confidence = One)

\* C14: the confidence of every match lies within [0, 1] at every stage,
\* the cross-listing boosts included.
C14_ConfidenceInUnitInterval ==
    call.returned =>
        \A s \in 1..Len(Stages) : \A k \in 1..Len(Stages[s]) :
            Stages[s][k].confidence \in 0..One

\* the location filter lets the match r of the call through
PassesLocationFilter(r) ==
    \/ r.stock \in MentionedSymbols[call.input]
    \/ TargetExchanges(call.location) = <<>>
    \/ IsLocalListing(call.location, r)
\* the matches the returned tickers are read from
LimitedResults == Take(call.deduplicatedResults, call.maxResults)

\* C15: a match of preferredResults whose confidence equals the threshold
\* is kept by the threshold filter (it is in filteredResults when the
\* location filter lets it through), and no match behind a returned ticker,
\* nor any match of filteredResults or deduplicatedResults, has a
\* confidence strictly below the threshold.
C15_ThresholdBoundary ==
    call.returned =>
        /\ \A k \in 1..Len(call.preferredResults) :
               (/\ call.preferredResults[k].confidence = call.confidenceThreshold
                /\ PassesLocationFilter(call.preferredResults[k]))
               => Member(call.preferredResults[k], call.filteredResults)
        /\ \A k \in 1..Len(call.filteredResults) :
               call.filteredResults[k].confidence >= call.confidenceThreshold
        /\ \A k \in 1..Len(call.deduplicatedResults) :
               call.deduplicatedResults[k].confidence >= call.confidenceThreshold
        /\ \A k \in 1..Len(LimitedResults) :
               LimitedResults[k].confidence >= call.confidenceThreshold
\* a call that returned a ticker whose match has exactly the confidence of
\* the threshold, while another match below the threshold was dropped
C15_Witness ==
    /\ call.returned
    /\ \E k \in 1..Len(LimitedResults) :
           /\ LimitedResults[k].confidence = call.confidenceThreshold
           /\ Returned(SymbolAt(LimitedResults[k].stock))
    /\ \E k \in 1..Len(call.preferredResults) :
           /\ call.preferredResults[k].confidence < call.confidenceThreshold
           /\ ~Returned(SymbolAt(call.preferredResults[k].stock))

\* C17: the list findStockTickers returns has at most maxResults elements
\* and is a prefix of the deduplicated, ordered match list: its k-th ticker
\* is the symbol of the k-th deduplicated match, and it stops short of the
\* deduplicated list only at maxResults.
C17_TruncatedPrefix ==
    call.returned =>
        /\ Len(call.tickers) <= call.maxResults
        /\ Len(call.tickers) <= Len(call.deduplicatedResults)
        /\ \A k \in 1..Len(call.tickers) :
               call.tickers[k] = SymbolAt(call.deduplicatedResults[k].stock)
        /\ Len(call.tickers) < Len(call.deduplicatedResults)
               => Len(call.tickers) = call.maxResults
\* a call whose deduplicated list was cut to a shorter, non-empty result
C17_Witness ==
    /\ call.returned
    /\ call.maxResults >= 1
    /\ Len(call.deduplicatedResults) > call.maxResults
    /\ Len(call.tickers) = call.maxResults

\* the records of a list of matches
StocksIn(rs) == {rs[k].stock : k \in 1..Len(rs)}
\* the matched listings of company key in the call
CallListings(key) == ListingsOf(call.results, key)
\* what the cross-listing step of the call pushes for company key
CarriedForward(key) == PreferredOf(CallListings(key), call.input, call.location)
\* the listings the first rule with a non-empty answer selects, the rules
\* taken in the order explicit mention, market hint, requested scope,
\* global fallback (primary exchanges, then Hong Kong, then all)
FirstRuleListings(key) ==
    LET listings == CallListings(key)
        explicit == {i \in StocksIn(listings) : i \in ExplicitTickers[call.input]}
        hint == StocksIn(HintListings(call.input, listings))
        scope == {i \in StocksIn(listings) : IsLocalListing(call.location, [stock |-> i])}
        primary == {i \in StocksIn(listings) : IsPrimaryListing([stock |-> i])}
        hk == {i \in StocksIn(listings) : IsHKListing([stock |-> i])}
    IN IF explicit # {} THEN explicit
       ELSE IF hint # {} THEN hint
       ELSE IF scope # {} THEN scope
       ELSE IF primary # {} THEN primary
       ELSE IF hk # {} THEN hk
       ELSE StocksIn(listings)

\* C19: for a company with two or more matched listings the cross-listing
\* step carries forward the listings of exactly one rule, the first in the
\* order explicit mention, market hint, requested scope, global fallback
\* that selects any, and carries each listing forward at most once.
C19_OneRuleInPriorityOrder ==
    call.returned =>
        \A n \in 1..Len(CompanyKeys(call.results)) :
            LET key == CompanyKeys(call.results)[n]
            IN Len(CallListings(key)) >= 2 =>
                /\ StocksIn(CarriedForward(key)) = FirstRuleListings(key)
                /\ \A j, k \in 1..Len(CarriedForward(key)) :
                       j # k => CarriedForward(key)[j].stock # CarriedForward(key)[k].stock

\* C20: for a location other than global, a returned ticker whose exchange
\* is not among the exchanges of the location is a whole token of the
\* (upper-cased) query text.
C20_OutOfScopeOnlyIfToken ==
    (call.returned /\ call.location # "global") =>
        \A k \in 1..Len(LimitedResults) :
            \/ IsLocalListing(call.location, LimitedResults[k])
            \/ LimitedResults[k].stock \in ExplicitTickers[call.input]

(***************************************************************************)
(* extractTickers at the edges of its input: the calls draw their text     *)
(* from InputTexts.                                                        *)
(***************************************************************************)
ExtractInput(c) ==
    \E text \in InputTexts, location \in ServiceLocations : Extract(c, text, location)

NextInputs ==
    \/ InitializeResolved
    \/ ConstructorInitResolved
    \/ \E c \in Slots : ExtractInput(c)
    \/ \E c \in Slots : InitResolved(c)
    \/ \E c \in Slots : FindMatches(c)
    \/ \E c \in Slots : SearchResolved(c)
    \/ \E c \in Slots : SortMatches(c)
    \/ \E c \in Slots : Return(c)

\* the entities of InputTexts; the scores of the queries no call makes are
\* kept at their values of RestScores
InputEntities == {sBABA, eAlibaba}
InitInputs ==
    /\ InitService
    /\ \A p \in HitPairs : p[1] \notin InputEntities => fuseScore[p] = RestScores[p]

SpecInputs == InitInputs /\ [][NextInputs]_vars

\* the texts that are empty or blank or hold no entity
NoEntityTexts == {tEmpty, tBlank, tHongKong}

\* C16: a call whose text is empty or blank, or in which findEntities finds
\* no entity, never calls findDirectMatches and never starts a searchStocks,
\* whatever its location, and returns the empty list.
C16_EmptyInput ==
    \A c \in Slots :
        requests[c].text \in NoEntityTexts =>
            /\ requests[c].lookups = 0 /\ requests[c].searches = 0
            /\ requests[c].directMatches = <<>> /\ requests[c].fuzzyMatches = <<>>
            /\ requests[c].pc = "returned" =>
                   requests[c].sortedMatches = <<>> /\ requests[c].outcome = "fulfilled"
\* a blank text has returned in one call and a text without entities has
\* gone through findEntities and returned in another, the map being filled
C16_Witness ==
    \E c, d \in Slots :
        /\ requests[c].pc = "returned" /\ requests[c].text = tBlank
        /\ requests[d].pc = "returned" /\ requests[d].text = tHongKong
        /\ extractor.mapFilled

\* C18: the list extractTickers returns never holds the same stock twice.
C18_NoDuplicateSymbol ==
    \A c \in Slots :
        requests[c].pc = "returned" =>
            \A j, k \in 1..Len(requests[c].sortedMatches) :
                j # k => requests[c].sortedMatches[j] # requests[c].sortedMatches[k]
\* a call that found one stock both as a direct match and, for two
\* entities, as a fuzzy match, and returned it
C18_Witness ==
    \E c \in Slots : \E i \in Stocks :
        /\ requests[c].pc = "returned"
        /\ \E k \in 1..Len(requests[c].directMatches) : requests[c].directMatches[k] = i
        /\ Cardinality({k \in 1..Len(requests[c].fuzzyMatches) :
                            requests[c].fuzzyMatches[k].item = i}) >= 2
        /\ Cardinality({k \in 1..Len(requests[c].sortedMatches) :
                            requests[c].sortedMatches[k] = i}) = 1

(***************************************************************************)
(* extractTickers while the stock list is refreshed.                       *)
(***************************************************************************)
\* the refreshes of one behaviour
MaxRefreshes == 1
RefreshTexts == {tCompareBabaNvda}

\* updateStockCache(), or the getStockList() of any caller that finds the
\* cache expired: the list is fetched and written to the cache file
UpdateStockCache ==
    /\ catalog = "list"
    /\ stockCache <= MaxRefreshes
    /\ stockCache' = stockCache + 1
    /\ UNCHANGED <<parserVars, cacheVars, catalog, fuseScore, fuze, extractor, requests, matchInfo>>

ExtractRefreshed(c) ==
    \E text \in RefreshTexts, location \in ServiceLocations : Extract(c, text, location)

NextRefresh ==
    \/ UpdateStockCache
    \/ InitializeResolved
    \/ ConstructorInitResolved
    \/ \E c \in Slots : ExtractRefreshed(c)
    \/ \E c \in Slots : InitResolved(c)
    \/ \E c \in Slots : FindMatches(c)
    \/ \E c \in Slots : SearchResolved(c)
    \/ \E c \in Slots : SortMatches(c)
    \/ \E c \in Slots : Return(c)

SpecRefresh == InitService /\ [][NextRefresh]_vars

\* C11: a call that starts after the stock list was refreshed looks its
\* entities up in a stockInfoMap, and searches Fuse indices, built from a
\* stock list at least as new as the one in the cache when the call started.
C11_RefreshedCatalogUsed ==
    \A c \in Slots :
        catalog = "list" =>
            /\ requests[c].lookups = 1 => requests[c].mapEpoch >= requests[c].epoch
            /\ requests[c].indexEpoch # 0 => requests[c].indexEpoch >= requests[c].epoch

\* the rank of a match under the exchange priority of the location of the
\* call: for US, NYSE, then NASDAQ, then the other exchanges; for CN, SHH,
\* then SHZ, then the others; one rank for all under the other locations
PriorityRank(r) ==
    LET e == ExchangeAt(r.stock)
    IN CASE call.location = "US" ->
                IF e = "NYSE" THEN 0 ELSE IF e = "NASDAQ" THEN 1 ELSE 2
         [] call.location = "CN" ->
                IF e = "SHH" THEN 0 ELSE IF e = "SHZ" THEN 1 ELSE 2
         [] OTHER -> 0
\* a ranks strictly higher than b: a better exchange rank, or the same rank
\* and a greater confidence
RanksHigher(a, b) ==
    \/ PriorityRank(a) < PriorityRank(b)
    \/ PriorityRank(a) = PriorityRank(b) /\ a.confidence > b.confidence

\* C21: in the list findStockTickers returns, no ticker precedes a ticker
\* that ranks strictly higher under the order "exchange priority of the
\* location, then descending confidence".
C21_OrderedByPriorityThenConfidence ==
    call.returned =>
        \A j, k \in 1..Len(LimitedResults) :
            j < k => ~RanksHigher(LimitedResults[k], LimitedResults[j])

\* the matches of company key that survived the filters of the call
Surviving(key) == ListingsOf(call.filteredResults, key)
\* the match r is on the market a hint of the text of the call names
OnHintedMarket(r) ==
    \/ Hints[call.input].hongKong /\ IsHKListing(r)
    \/ Hints[call.input].us /\ IsUSListing(r)
    \/ Hints[call.input].china /\ IsChinaListing(r)
\* the match r is on an exchange of the requested, non-global location
OnRequestedLocation(r) ==
    /\ call.location # "global"
    /\ TargetExchanges(call.location) # <<>>
    /\ IsLocalListing(call.location, r)
\* r is the match the order of preference selects among matches: a match
\* whose symbol is a token of the text, else a match of the requested
\* location, else a match of a hinted market, else a match of the highest
\* confidence
Preferred(r, matches) ==
    LET explicit == \E k \in 1..Len(matches) : matches[k].stock \in ExplicitTickers[call.input]
        local == \E k \in 1..Len(matches) : OnRequestedLocation(matches[k])
        hinted == \E k \in 1..Len(matches) : OnHintedMarket(matches[k])
    IN IF explicit THEN r.stock \in ExplicitTickers[call.input]
       ELSE IF local THEN OnRequestedLocation(r)
       ELSE IF hinted THEN OnHintedMarket(r)
       ELSE \A k \in 1..Len(matches) : matches[k].confidence <= r.confidence

\* C22: of the surviving matches of one company findStockTickers keeps
\* exactly one, and it is the one the order of preference selects.
C22_OnePerCompanyByPreference ==
    call.returned =>
        \A n \in 1..Len(CompanyKeys(call.filteredResults)) :
            LET key == CompanyKeys(call.filteredResults)[n]
                kept == ListingsOf(call.deduplicatedResults, key)
            IN /\ Len(kept) = 1
               /\ Member(kept[1], Surviving(key))
               /\ Len(Surviving(key)) >= 2 => Preferred(kept[1], Surviving(key))

\* the matches of the call that came from the searches for its candidates,
\* and those that came from the search for the whole text
CandidateHitStocks ==
    StocksIn(FuzzyMatches(fuse, "cached", CallCandidates, 1, <<>>))
IsCandidateHit(r) == r.stock \notin ExactStocks /\ r.stock \in CandidateHitStocks
IsWholeQueryHit(r) == r.stock \notin ExactStocks /\ r.stock \notin CandidateHitStocks
SameKind(a, b) ==
    \/ IsCandidateHit(a) /\ IsCandidateHit(b)
    \/ IsWholeQueryHit(a) /\ IsWholeQueryHit(b)

\* C23: parseQuery gives a hit of a candidate search with score s the
\* confidence 1 - s and a hit of the whole-text search 0.9 * (1 - s), the
\* perfect score 0 included; a hit with a smaller score never has a lower
\* confidence than a hit of the same kind with a larger score.
C23_ConfidenceFromScore ==
    call.returned =>
        /\ \A k \in 1..Len(call.results) :
               LET r == call.results[k]
               IN /\ IsCandidateHit(r) => r.confidence = One - fuse[r.stock].score
                  /\ IsWholeQueryHit(r) =>
                         r.confidence = ((One - fuse[r.stock].score) * 9) \div 10
        /\ \A j, k \in 1..Len(call.results) :
               (/\ SameKind(call.results[j], call.results[k])
                /\ fuse[call.results[j].stock].score < fuse[call.results[k].stock].score)
               => call.results[j].confidence >= call.results[k].confidence

\* the matches of the call with the confidence the cross-listing step
\* leaves them
BoostedResults ==
    AfterBoosts(call.results, CompanyKeys(call.results), 1, call.input, call.location)

\* C24: a match whose confidence the cross-listing step of findStockTickers
\* changed has a confidence not below its confidence before the step and
\* strictly below 1.0.
C24_BoostRaisesBelowOne ==
    call.returned =>
        \A k \in 1..Len(call.results) :
            BoostedResults[k].confidence # call.results[k].confidence =>
                /\ BoostedResults[k].confidence >= call.results[k].confidence
                /\ BoostedResults[k].confidence < One

\* the non-empty tokens of a query text before extractCandidates drops the
\* tokens of one character: special phrases removed, punctuation blanked,
\* split at white space
QueryTokens ==
    [t \in Texts |->
        SelectSeq(SplitWS(StripSpecial(RemoveTerms(t, 1))), LAMBDA tok : Len(tok) > 0)]

\* C25: every token of the query, the tokens of one to five uppercase
\* letters (a single letter included) among them, is one of the candidates
\* extractCandidates returns, so none is lost.
C25_NoTokenLost ==
    call.returned =>
        \A k \in 1..Len(QueryTokens[call.input]) :
            Member(QueryTokens[call.input][k], Candidates[call.input])

(***************************************************************************)
(* Claims about the exchange tables, checked under SpecService.            *)
(***************************************************************************)
\* MARKET_EXCHANGES[location]; GLOBAL is Object.values(Exchange)
MARKET_EXCHANGES(location) ==
    CASE location = "GLOBAL" -> {"NYSE", "NASDAQ", "AMEX", "HKSE", "SHH", "SHZ", "OTC"}
      [] location = "US" -> {"NYSE", "NASDAQ", "AMEX", "OTC"}
      [] location = "HK" -> {"HKSE"}
      [] location = "CN" -> {"SHH", "SHZ"}
MarketLocations == {"GLOBAL", "US", "HK", "CN"}

\* C26: once the indices are built, for every location a catalog record
\* passes the direct-match location filter exactly when it is in that
\* location's fuzzy index, and exactly when its exchange is in that
\* location's entry of MARKET_EXCHANGES.
C26_OneExchangeTable ==
    fuze.isInitialized /\ catalog = "list" =>
        \A location \in MarketLocations, i \in Stocks :
            /\ stockMatchesLocation[i, location] <=> i \in fuseIndices(fuze.revision, location)
            /\ stockMatchesLocation[i, location] <=> ExchangeAt(i) \in MARKET_EXCHANGES(location)

(***************************************************************************)
(* Part IV.  The stock-list cache and the refresh endpoint                 *)
(*                                                                         *)
(* A stock list is named by a number of Lists; the list the API answers    *)
(* with is any of them.  The clock advances in steps of half an hour, so a *)
(* cache can be read at the age of exactly CACHE_EXPIRY.  A call that      *)
(* awaits fetch() stays at pc "fetching" until the fetch resolves or       *)
(* rejects; other calls and the clock move in between.                     *)
(***************************************************************************)
\* the number of clock steps
MaxTicks == 2
EndTime == StartTime + MaxTicks * HalfHour
\* the stock lists the API can answer with
Lists == {1, 2}
\* CRON_SECRET_TOKEN: not set, set to the empty string, or set to a secret
SecretTokens == {"undefined", "", "s3cret"}
\* searchParams.get('token'): "null" when the request has no token parameter
RequestTokens == {"null", "s3cret", "guess"}

\* a cache file left by an earlier process: none, one without a usable
\* timestamp (timestamp 0), one that is exactly CACHE_EXPIRY old and one
\* that is half an hour old
InitialFiles ==
    {NoFile}
    \cup {[exists |-> TRUE, timestamp |-> t, data |-> 1] :
             t \in {0, StartTime - CACHE_EXPIRY, StartTime - HalfHour}}

\* the lenient reading of the expiry test: a cache of exactly CACHE_EXPIRY
\* still counts as valid
isCacheValidUpTo(file, t) ==
    file.exists /\ file.timestamp # 0 /\ (t - file.timestamp) <= CACHE_EXPIRY
\* isCacheValid(): cache.timestamp && (now - cache.timestamp) < CACHE_EXPIRY
isCacheValid(file, t) ==
    file.exists /\ file.timestamp # 0 /\ (t - file.timestamp) < CACHE_EXPIRY
\* getStockDataFromCache()
getStockDataFromCache(file) == file.data
\* cacheStockData(data): { timestamp: Date.now(), data } written to CACHE_FILE
cacheStockData(data, t) == [exists |-> TRUE, timestamp |-> t, data |-> data]
\* a failure handling that removes the cache file
cacheRemoved(file) == NoFile
\* the cache file after fetchStockList() has thrown: cacheStockData is not
\* reached
cacheAfterFailure(file) == file

\* a handler that lets every request through
AlwaysAuthorized(secret, token) == FALSE
\* secretToken && tokenFromRequest !== secretToken
Unauthorized(secret, token) == secret \notin {"undefined", ""} /\ token # secret

\* the call in slot c as it starts
Started(op, token) ==
    [NoJob EXCEPT !.op = op, !.token = token]

\* getStockList() up to its first await, or to its return from the cache
GetStockList(c) ==
    /\ jobs[c].pc = "idle"
    /\ jobs' = [jobs EXCEPT ![c] =
          IF isCacheValid(cacheFile, now)
          THEN [Started("getStockList", "none") EXCEPT
                   !.pc = "done", !.outcome = "cached",
                   !.result = getStockDataFromCache(cacheFile)]
          ELSE [Started("getStockList", "none") EXCEPT
                   !.pc = "fetching", !.fetch = "pending", !.apiCalls = 1]]
    /\ UNCHANGED <<parserVars, serviceVars, cacheFile, now, secretToken>>

\* updateStockCache() up to await fetchStockList()
UpdateCache(c) ==
    /\ jobs[c].pc = "idle"
    /\ jobs' = [jobs EXCEPT ![c] =
          [Started("updateStockCache", "none") EXCEPT
              !.pc = "fetching", !.fetch = "pending", !.apiCalls = 1, !.updateCalls = 1]]
    /\ UNCHANGED <<parserVars, serviceVars, cacheFile, now, secretToken>>

\* GET(request) of the refresh endpoint up to its 401 answer or to await
\* updateStockCache()
RefreshRequest(c) ==
    /\ jobs[c].pc = "idle"
    /\ \E token \in RequestTokens :
          jobs' = [jobs EXCEPT ![c] =
             IF Unauthorized(secretToken, token)
             THEN [Started("GET", token) EXCEPT !.pc = "done", !.outcome = "401"]
             ELSE [Started("GET", token) EXCEPT
                      !.pc = "fetching", !.fetch = "pending", !.apiCalls = 1,
                      !.updateCalls = 1]]
    /\ UNCHANGED <<parserVars, serviceVars, cacheFile, now, secretToken>>

\* fetch() answers with a list: the call writes the cache and returns
FetchResolved(c) ==
    /\ jobs[c].pc = "fetching"
    /\ \E data \in Lists :
          /\ cacheFile' = cacheStockData(data, now)
          /\ jobs' = [jobs EXCEPT ![c] =
                [@ EXCEPT !.pc = "done", !.fetch = "ok", !.result = data,
                          !.outcome = CASE jobs[c].op = "getStockList" -> "fetched"
                                        [] jobs[c].op = "updateStockCache" -> "resolved"
                                        [] jobs[c].op = "GET" -> "200"]]
    /\ UNCHANGED <<parserVars, serviceVars, now, secretToken>>

\* fetch() rejects or answers with a status that is not OK: fetchStockList
\* throws, getStockList and updateStockCache reject, GET answers 500
FetchRejected(c) ==
    /\ jobs[c].pc = "fetching"
    /\ cacheFile' = cacheAfterFailure(cacheFile)
    /\ jobs' = [jobs EXCEPT ![c] =
          [@ EXCEPT !.pc = "done", !.fetch = "failed",
                    !.outcome = IF jobs[c].op = "GET" THEN "500" ELSE "rejected"]]
    /\ UNCHANGED <<parserVars, serviceVars, now, secretToken>>

\* the caller has its answer; the slot is free for the next call
Settle(c) ==
    /\ jobs[c].pc = "done"
    /\ jobs' = [jobs EXCEPT ![c] = NoJob]
    /\ UNCHANGED <<parserVars, serviceVars, cacheFile, now, secretToken>>

\* half an hour passes
Tick ==
    /\ now < EndTime
    /\ now' = now + HalfHour
    /\ UNCHANGED <<parserVars, serviceVars, cacheFile, secretToken, jobs>>

InitCache ==
    /\ fuse = [i \in Stocks |-> NoHit]
    /\ indexCache = "null"
    /\ call = NoCall
    /\ memo = NoCall
    /\ ServiceAtRest
    /\ cacheFile \in InitialFiles
    /\ now = StartTime
    /\ secretToken \in SecretTokens
    /\ jobs = [c \in Jobs |-> NoJob]

NextCache ==
    \/ \E c \in Jobs : GetStockList(c)
    \/ \E c \in Jobs : UpdateCache(c)
    \/ \E c \in Jobs : RefreshRequest(c)
    \/ \E c \in Jobs : FetchResolved(c)
    \/ \E c \in Jobs : FetchRejected(c)
    \/ \E c \in Jobs : Settle(c)
    \/ Tick

SpecCache == InitCache /\ [][NextCache]_vars

(***************************************************************************)
(* Claims about the cache and the refresh endpoint, checked under          *)
(* SpecCache.                                                              *)
(***************************************************************************)
\* the cache file exists and its timestamp is less than CACHE_EXPIRY old
FreshCache == cacheFile.exists /\ now - cacheFile.timestamp < CACHE_EXPIRY
\* slot c takes a getStockList call in this step
GetStockListCalled(c) == jobs[c].pc = "idle" /\ jobs'[c].op = "getStockList"
\* the fetch of the getStockList call in slot c is answered in this step
GetStockListFetched(c) ==
    jobs[c].op = "getStockList" /\ jobs[c].pc = "fetching" /\ jobs'[c].fetch = "ok"

\* C27: a getStockList call returns the cached list without calling the API
\* exactly when the cache file exists and is less than CACHE_EXPIRY old;
\* otherwise it calls the API and, when the API answers, writes the answer
\* to the cache with the current time and returns it.
C27_CachedExactlyWhenFresh ==
    [][\A c \in Jobs :
          /\ GetStockListCalled(c) =>
                /\ cacheFile' = cacheFile
                /\ (jobs'[c].outcome = "cached" /\ jobs'[c].apiCalls = 0) <=> FreshCache
                /\ FreshCache => jobs'[c].result = cacheFile.data
                /\ ~FreshCache => jobs'[c].pc = "fetching" /\ jobs'[c].apiCalls = 1
          /\ GetStockListFetched(c) =>
                /\ jobs'[c].outcome = "fetched"
                /\ cacheFile' = [exists |-> TRUE, timestamp |-> now, data |-> jobs'[c].result]]_vars
\* a getStockList call was answered from a cache that an earlier call of
\* this process wrote, half an hour or more before
C27_Witness ==
    \E c \in Jobs :
        /\ jobs[c].op = "getStockList" /\ jobs[c].outcome = "cached"
        /\ cacheFile.timestamp > StartTime
        /\ now > cacheFile.timestamp
        /\ jobs[c].result = cacheFile.data

\* the fetch of the call in slot c fails in this step
FetchFails(c) == jobs[c].pc = "fetching" /\ jobs'[c].fetch = "failed"
\* C28: when the fetch of a getStockList or updateStockCache call fails, the
\* call rejects (the refresh endpoint, which awaits updateStockCache, answers
\* 500), and no step of the call, from its start to the failure, changes the
\* cache file.
C28_FailedFetchKeepsCache ==
    [][\A c \in Jobs :
          /\ jobs'[c] # jobs[c] /\ jobs'[c].fetch \in {"pending", "failed"} =>
                cacheFile' = cacheFile
          /\ FetchFails(c) =>
                jobs'[c].outcome = IF jobs[c].op = "GET" THEN "500" ELSE "rejected"]_vars
\* a getStockList call and an updateStockCache call have both failed while
\* a cache file was there
C28_Witness ==
    /\ cacheFile.exists
    /\ \E c \in Jobs : jobs[c].op = "getStockList" /\ jobs[c].fetch = "failed"
    /\ \E c \in Jobs : jobs[c].op = "updateStockCache" /\ jobs[c].fetch = "failed"

\* CRON_SECRET_TOKEN holds a secret
TokenConfigured == secretToken \notin {"undefined", ""}
\* C29: with CRON_SECRET_TOKEN configured, a request whose token is missing
\* or different is answered 401, never reaches updateStockCache or the API
\* and leaves the cache file alone; only a request with the matching token
\* invokes updateStockCache.
C29_RefreshNeedsToken ==
    /\ [](TokenConfigured =>
            \A c \in Jobs :
                jobs[c].op = "GET" =>
                    IF jobs[c].token # secretToken
                    THEN /\ jobs[c].outcome = "401"
                         /\ jobs[c].updateCalls = 0
                         /\ jobs[c].apiCalls = 0
                    ELSE jobs[c].updateCalls = 1)
    /\ [][\A c \in Jobs :
             TokenConfigured /\ jobs'[c] # jobs[c] /\ jobs'[c].op = "GET"
             /\ jobs'[c].token # secretToken => cacheFile' = cacheFile]_vars
\* one request with a wrong token was turned away and one with the secret
\* was served
C29_Witness ==
    /\ secretToken = "s3cret"
    /\ \E c \in Jobs : jobs[c].op = "GET" /\ jobs[c].token \in {"null", "guess"} /\ jobs[c].outcome = "401"
    /\ \E c \in Jobs : jobs[c].op = "GET" /\ jobs[c].token = "s3cret" /\ jobs[c].outcome = "200"

(***************************************************************************)
(* The order of a GLOBAL answer of extractTickers.                         *)
(***************************************************************************)
\* the position of record i in the answer of the call in slot c, 0 when the
\* answer does not hold it
PlaceOf(c, i) ==
    IF \E k \in 1..Len(requests[c].sortedMatches) : requests[c].sortedMatches[k] = i
    THEN CHOOSE k \in 1..Len(requests[c].sortedMatches) : requests[c].sortedMatches[k] = i
    ELSE 0
\* the records the call in slot c matched by symbol, and those it matched by
\* search only
DirectStocks(c) == {requests[c].directMatches[k] : k \in 1..Len(requests[c].directMatches)}
FuzzyStocks(c) ==
    {requests[c].fuzzyMatches[k].item : k \in 1..Len(requests[c].fuzzyMatches)} \ DirectStocks(c)
\* the scores the searches of the call gave record i
ScoresOf(c, i) ==
    {requests[c].fuzzyMatches[k].score :
        k \in {n \in 1..Len(requests[c].fuzzyMatches) : requests[c].fuzzyMatches[n].item = i}}

\* the scores with a perfect match among them: a name query scores 0 or 0.3
\* on a record it hits
PerfectFuseScores ==
    {sc \in [HitPairs -> {PerfectScore, 5000, 300000}] :
        \A p \in HitPairs :
            IF DirectOf[p[1]] # 0
            THEN sc[p] = IF DirectOf[p[1]] = p[2] THEN 5000 ELSE 300000
            ELSE sc[p] \in {PerfectScore, 300000}}
InitPerfect ==
    /\ fuse = [i \in Stocks |-> NoHit]
    /\ indexCache = "null"
    /\ call = NoCall
    /\ memo = NoCall
    /\ catalog = "list"
    /\ fuseScore \in PerfectFuseScores
    /\ fuze \in {[revision |-> r, isInitialized |-> FALSE, initialize |-> "pending", indexVersion |-> 0] : r \in Revisions}
    /\ extractor = [isInitialized |-> FALSE, mapFilled |-> FALSE, constructorInit |-> TRUE, mapVersion |-> 0]
    /\ stockCache = 1
    /\ requests = [c \in Slots |-> Idle]
    /\ matchInfo = NoMatchInfo
    /\ CacheAtRest

SpecPerfect == InitPerfect /\ [][NextService]_vars

\* no other call is in progress, and the tags of the records the call in
\* slot c found by search are the ones this call wrote
RanAlone(c) ==
    /\ \A d \in Slots \ {c} : requests[d].pc = "idle"
    /\ \A f \in FuzzyStocks(c) : matchInfo["fuseIndices"][f].matchScore \in ScoresOf(c, f)

\* C30: in a GLOBAL answer every record matched by symbol stands before
\* every record matched by search only, and of two records matched by search
\* only the one with the lower score stands first, a score of 0 included
\* (stated for a call no other call has interfered with).
C30_DirectThenByScore ==
    \A c \in Slots :
        requests[c].pc = "returned" /\ requests[c].location = "GLOBAL" /\ RanAlone(c) =>
            /\ \A d \in DirectStocks(c), f \in FuzzyStocks(c) : PlaceOf(c, d) < PlaceOf(c, f)
            /\ \A f \in FuzzyStocks(c), g \in FuzzyStocks(c) :
                  (\A x \in ScoresOf(c, f), y \in ScoresOf(c, g) : x < y) =>
                      PlaceOf(c, f) < PlaceOf(c, g)

====
